---- MODULE Spec2Model ----
(***************************************************************************)
(* A model of the execution core of prefect:                               *)
(*   - the task engine (src/prefect/new_task_engine.py): TaskRunEngine and *)
(*     run_task_sync / run_task_async, one task run driven through its     *)
(*     state proposals;                                                    *)
(*   - the Runner (src/prefect/runner.py): the submit loop, the child      *)
(*     process monitors, execute_flow_run and the cancellation loop.       *)
(*                                                                         *)
(* SpecEngine is the engine's state machine, SpecRunner the Runner's.      *)
(* Each specification leaves the other component's variables untouched.    *)
(***************************************************************************)
EXTENDS Integers, Sequences, FiniteSets, TLC

(***************************************************************************)
(* Bounds of the model.                                                    *)
(***************************************************************************)
\* largest value of task.retries that is explored
MaxRetries == 2
\* how often begin_run's polling loop re-proposes Running
MaxPolls == 2
\* how often the task function is invoked in one run (a server that keeps
\* answering Running makes the loop of run_task_sync unbounded)
MaxCalls == 4
\* longest on_failure and on_completion list of a task
MaxHooks == 2
\* flow runs the server knows
NumFlowRuns == 2
\* how far the clock of the healthcheck runs, in clock ticks
MaxNow == 64
\* largest query_interval_seconds a healthcheck is asked with
MaxQueryInterval == 1
\* most deployments a Runner manages
MaxDeployments == 1
\* longest name a Runner is constructed with
MaxNameLen == 4
\* largest limit a Runner is created with
MaxLimit == 2
\* cancel_run tasks and delayed removals alive at once for one flow run
MaxCancelTasks == 2
\* the longest grace period, in seconds, kill_process is called with
MaxGrace == 12

(***************************************************************************)
(* Task engine: states.  A state is named by its type, except for the      *)
(* three named states the engine builds itself: Pending named NotReady     *)
(* ("NotReady"), Running named Retrying ("Retrying") and Failed named      *)
(* TimedOut ("TimedOut").                                                  *)
(***************************************************************************)
EngineStates ==
  {"Pending", "NotReady", "Running", "Retrying", "Paused",
   "Completed", "Failed", "TimedOut", "Crashed", "Cancelled"}

is_pending(s) == s \in {"Pending", "NotReady"}

is_paused(s) == s = "Paused"

IsRunningMutNotPending(s) == ~ (s \in {"Pending", "NotReady", "Paused"})

is_running(s) == s \in {"Running", "Retrying"}

is_completed(s) == s = "Completed"

is_failed(s) == s \in {"Failed", "TimedOut"}

is_final(s) == s \in {"Completed", "Failed", "TimedOut", "Crashed", "Cancelled"}

\* the states a task run handed to the engine may be in; "NoRun" is
\* task_run = None, for which start() creates a Pending run
SuppliedStates == {"NoRun", "Pending", "Running", "Completed"}

\* the states the server answers a refused proposal with
RejectStates == {"Pending", "Running", "Completed", "Failed", "Cancelled"}

\* the states return_value_to_state builds when the task function returns
\* a State object instead of a plain value
ReturnedStates == {"Completed", "Failed", "Cancelled"}

(***************************************************************************)
(* propose_state_sync: the answers of the orchestration API to a proposal. *)
(* A forced proposal bypasses orchestration and is accepted.  Otherwise    *)
(* the server accepts, answers with a state of its own, parks the run      *)
(* (Pause, with a state that asks for a reschedule or not, or without a    *)
(* state) or refuses (Abort).                                              *)
(***************************************************************************)
Accept == [kind |-> "accept", state |-> "-"]

Responses(force) ==
  IF force THEN {Accept}
  ELSE {Accept}
       \cup {[kind |-> "reject", state |-> s] : s \in RejectStates}
       \cup {[kind |-> k, state |-> "Paused"] :
               k \in {"pause_reschedule", "pause", "pause_no_state"}}
       \cup {[kind |-> "abort", state |-> "-"]}

\* TaskRunEngine.set_state: the signal it raises ("none": it returns) and
\* the state it records on the task run
set_state(cur, proposed, resp) ==
  CASE resp.kind = "accept" -> [raised |-> "none", state |-> proposed]
    [] resp.kind = "reject" -> [raised |-> "none", state |-> resp.state]
    [] resp.kind \in {"pause", "pause_no_state"} ->
         [raised |-> "none", state |-> "Paused"]
    [] resp.kind = "pause_reschedule" -> [raised |-> "Pause", state |-> cur]
    [] OTHER -> [raised |-> "Abort", state |-> cur]

\* the state the server holds for the run after its answer
ServerAfter(srv, proposed, resp) ==
  CASE resp.kind = "accept" -> proposed
    [] resp.kind \in {"reject", "pause", "pause_reschedule"} -> resp.state
    [] OTHER -> srv

(***************************************************************************)
(* Task engine: variables.                                                 *)
(***************************************************************************)
VARIABLES
  task,            \* the Task: retries, whether retry_condition_fn is set,
                   \* whether cache_expiration is set, whether
                   \* task_run_name is set
  task_run_state,  \* TaskRunEngine.task_run.state
  server_state,    \* the state the API holds for the task run
  retries,         \* TaskRunEngine.retries
  pc,              \* where run_task_sync stands
  fn_outcome,      \* how the last call of task.fn ended, until it is handled
  polls,           \* re-proposals made by begin_run's polling loop
  fn_calls,        \* history: calls of task.fn
  nprop,           \* history: proposals made
  last_prop,       \* history: the last proposal, [state, force]
  edge,            \* history: the last recorded transition <<from, to>>
  all_accepted,    \* history: every proposal so far was accepted
  plain_returns,   \* history: task.fn never returned a State object
  final_recorded,  \* history: set_state has recorded a final state
  cond_result,     \* history: what the last retry_condition_fn check gave
  supplied,        \* history: the state of the task run given to the engine
  exit_kind,       \* how run_task_sync ended
  hooks_todo,      \* the hooks get_hooks has still to yield
  hooks_called,    \* history: the hooks called, in order
  hook_lists,      \* history: task.on_failure and task.on_completion as
                   \* get_hooks read them (their lengths)
  return_type,     \* history: the return_type run_task_sync was called with
  prop_cache_expiration,  \* history: the last proposal carries a
                   \* cache_expiration that is not None
  is_started,      \* TaskRunEngine._is_started
  client_handle,   \* TaskRunEngine._client: "None" or "client"
  task_name_set,   \* TaskRunEngine._task_name_set
  name_calls       \* history: calls of client.set_task_run_name

engineVars ==
  <<task, task_run_state, server_state, retries, pc, fn_outcome, polls,
    fn_calls, nprop, last_prop, edge, all_accepted, plain_returns,
    final_recorded, cond_result, supplied, exit_kind, hooks_todo,
    hooks_called, hook_lists, return_type, prop_cache_expiration,
    is_started, client_handle, task_name_set, name_calls>>

\* what only enter_run_context writes
nameVars == <<task_name_set, name_calls>>

\* what only the end of run_task_sync (hooks and return) writes
endVars == <<hooks_todo, hooks_called, hook_lists, return_type>>

NoHooks == [on_failure |-> 0, on_completion |-> 0]

(***************************************************************************)
(* Runner: variables.  The tasks of the Runner's task group are kept by    *)
(* their position: one _submit_run and one _submit_run_and_capture_errors  *)
(* task per flow run, and counted cancel_run and delayed-removal tasks.    *)
(***************************************************************************)
VARIABLES
  mode,                     \* "start": Runner.start; "execute": execute_flow_run
  limit,                    \* Runner._limit (NoLimit: None)
  borrowers,                \* the borrowers of Runner._limiter
  submitting_flow_run_ids,  \* Runner._submitting_flow_run_ids
  flow_run_process_map,     \* Runner._flow_run_process_map, "none": no entry
  cancelling_flow_run_ids,  \* Runner._cancelling_flow_run_ids
  sub,                      \* where the _submit_run task of a flow run stands
  mon,                      \* where its _submit_run_and_capture_errors task stands
  ready,                    \* the value given to task_status.started, until
                            \* the task awaiting the start takes it
  exec_pc,                  \* where execute_flow_run stands
  cancel_pc,                \* where check_for_cancelled_flow_runs stands
  named_result,             \* the answer to its first ("named") query
  ctasks,                   \* cancel_run tasks of a flow run, by position
  delayed,                  \* delayed removals scheduled for a flow run
  tg_crashed,               \* an exception has escaped into the task group
  limiter_error,            \* history: the limiter raised RuntimeError
  spawns,                   \* history: cancel_run tasks spawned for a flow
                            \* run since it last entered the cancelling ids
  kills,                    \* history: kill_process calls, likewise
  server_cancelling,        \* the flow runs the server holds as cancelling
  marked,                   \* history: flow runs set to Cancelled by cancel_run
  kill_failed,              \* history: flow runs for which kill_process
                            \* raised something other than InfrastructureNotFound
  returncode,               \* result.status_code of a monitor task that is
                            \* proposing Crashed, 0 otherwise
  exit_report,              \* history: the flow run, the exit status, the
                            \* value returned and whether Crashed was
                            \* proposed, of the monitor task that has just
                            \* ended on the exit of its process, if one has
  tick                      \* history: the candidates, the ids already
                            \* submitting and the flow runs submitted of the
                            \* submit tick that has just run, if one has

runnerVars ==
  <<mode, limit, borrowers, submitting_flow_run_ids, flow_run_process_map,
    cancelling_flow_run_ids, sub, mon, ready, exec_pc, cancel_pc,
    named_result, ctasks, delayed, tg_crashed, limiter_error, spawns, kills,
    server_cancelling, marked, kill_failed, returncode, exit_report, tick>>

\* what only the monitor task of a flow run writes
exitHist == <<returncode>>

\* what only the server's cancellation requests and cancel_run write
cancelHist == <<server_cancelling, marked, kill_failed>>

(***************************************************************************)
(* Runner: the variables of its healthcheck.  Time is counted in clock     *)
(* ticks, TicksPerSecond of them to the second.                            *)
(***************************************************************************)
VARIABLES
  now,                      \* pendulum.now("utc")
  last_polled_time,         \* Runner._last_polled_time
  health                    \* history: the last call of
                            \* is_runner_still_polling: its argument, the
                            \* time elapsed since the last poll, its answer

pollVars == <<now, last_polled_time, health>>

(***************************************************************************)
(* Runner: the variables of its teardown.                                  *)
(***************************************************************************)
VARIABLES
  pause_on_shutdown,        \* Runner.pause_on_shutdown
  deployment_ids,           \* Runner.deployment_ids, by their number
  teardown_log              \* history: the steps teardown has taken

downVars == <<pause_on_shutdown, deployment_ids, teardown_log>>

(***************************************************************************)
(* Runner: the variables of its construction.  A string is a sequence of   *)
(* characters.                                                             *)
(***************************************************************************)
VARIABLES
  name_arg,                 \* the name argument of Runner(...)
  ctor,                     \* "none", "created" or "ValueError"
  runner_name               \* Runner.name

ctorVars == <<name_arg, ctor, runner_name>>

(***************************************************************************)
(* Runner: the variables of one call of kill_process.  Time is counted in  *)
(* tenths of a second.                                                     *)
(***************************************************************************)
VARIABLES
  platform,                 \* sys.platform
  grace_seconds,            \* the argument grace_seconds
  proc,                     \* what the pid stands for: "alive", the child
                            \* process; "gone", no process; "foreign", a
                            \* process the Runner may not signal
  kill_pc,                  \* where kill_process stands
  elapsed,                  \* the time spent in the move_on_after block
  os_calls,                 \* history: the calls of os.kill, each with its
                            \* signal and how it ended
  kill_result               \* how kill_process ended

killVars ==
  <<platform, grace_seconds, proc, kill_pc, elapsed, os_calls, kill_result>>

(***************************************************************************)
(* Runner: the calls of _propose_pending_state, one record per flow run.   *)
(***************************************************************************)
VARIABLES
  pending_calls             \* history: for each flow run the answer of the
                            \* last Pending proposal and what
                            \* _propose_pending_state made of it

(***************************************************************************)
(* Runner: the call of prepare_environment.                                *)
(***************************************************************************)
VARIABLES
  env_call                  \* history: the flow run, the settings and
                            \* os.environ of the last call of
                            \* prepare_environment, and what it returned

\* the variables of the operations specified on their own
unitVars == <<killVars, pending_calls, env_call>>

\* what neither the engine nor the tasks of the Runner write
otherVars == <<pollVars, downVars, ctorVars, unitVars>>

\* name = None, the default of the parameter
NoName == [given |-> FALSE, value |-> <<>>]

\* no Runner has been constructed
CtorFresh ==
  /\ name_arg = NoName
  /\ ctor = "none"
  /\ runner_name = <<>>

vars == <<engineVars, runnerVars, otherVars>>

\* kill_process has not been called
KillFresh ==
  /\ platform = "linux"
  /\ grace_seconds = 0
  /\ proc = "alive"
  /\ kill_pc = "none"
  /\ elapsed = 0
  /\ os_calls = <<>>
  /\ kill_result = "none"

\* _propose_pending_state has not been called for the flow run
NoCall == [answer |-> "-", result |-> "-"]

\* prepare_environment has not been called
NoEnvCall == [called |-> FALSE]

\* none of the operations specified on their own has been called
UnitFresh ==
  /\ KillFresh
  /\ pending_calls = [f \in 1..NumFlowRuns |-> NoCall]
  /\ env_call = NoEnvCall

\* the clock resolves half seconds
TicksPerSecond == 2

\* is_runner_still_polling has not been called
NoHealth == [asked |-> FALSE, q |-> 0, elapsed |-> 0, answer |-> TRUE]

\* a Runner constructed with its defaults, not torn down
DownFresh ==
  /\ pause_on_shutdown = TRUE
  /\ deployment_ids = 0
  /\ teardown_log = <<>>

\* Runner.__init__ sets _last_polled_time to now
PollFresh ==
  /\ now = 0
  /\ last_polled_time = 0
  /\ health = NoHealth

FlowRuns == 1..NumFlowRuns

\* limit = None: the Runner has no limiter
NoLimit == 0

CancelPcs == {"spawned", "killing", "marking"}

NoCancelTasks == [p \in CancelPcs |-> 0]

\* the last step was not a submit tick
NoTick == [cands |-> {}, already |-> {}, spawned |-> {}]

\* the exit statuses of a child process: clean, a generic failure, SIGKILL,
\* SIGTERM and the out-of-memory status
ExitCodes == {0, 1, -9, -15, 247}

\* ProcessRunnerResult(status_code = c, identifier = str(pid))
ProcessRunnerResult(c) == [kind |-> "ProcessRunnerResult", status_code |-> c]

\* the task has not returned: it was left by an exception
NoResult == [kind |-> "none", status_code |-> 0]

\* the last step was not the end of a monitor task whose process has exited
NoExit == [exited |-> FALSE, flow_run |-> 0, returncode |-> 0,
           result |-> NoResult, crash_proposed |-> FALSE]

\* the monitor task of f has ended after its process exited with code
ExitReport(f, code, res, proposed) ==
  [exited |-> TRUE, flow_run |-> f, returncode |-> code, result |-> res,
   crash_proposed |-> proposed]

\* ProcessRunnerResult.__bool__
Bool(r) == r.status_code = 0

\* the Runner as its constructor leaves it
RunnerFresh ==
  /\ borrowers = {}
  /\ submitting_flow_run_ids = {}
  /\ flow_run_process_map = [f \in FlowRuns |-> "none"]
  /\ cancelling_flow_run_ids = {}
  /\ sub = [f \in FlowRuns |-> "none"]
  /\ mon = [f \in FlowRuns |-> "none"]
  /\ ready = [f \in FlowRuns |-> "none"]
  /\ exec_pc = "none"
  /\ cancel_pc = "idle"
  /\ named_result = {}
  /\ ctasks = [f \in FlowRuns |-> NoCancelTasks]
  /\ delayed = [f \in FlowRuns |-> 0]
  /\ tg_crashed = FALSE
  /\ limiter_error = FALSE
  /\ spawns = [f \in FlowRuns |-> 0]
  /\ kills = [f \in FlowRuns |-> 0]
  /\ server_cancelling = {}
  /\ marked = {}
  /\ kill_failed = {}
  /\ returncode = [f \in FlowRuns |-> 0]
  /\ exit_report = NoExit
  /\ tick = NoTick

\* the task engine before a run
EngineFresh ==
  /\ task = [retries |-> 0, has_retry_condition_fn |-> FALSE,
             cache_expiration |-> FALSE, task_run_name |-> FALSE]
  /\ task_run_state = "NoRun"
  /\ server_state = task_run_state
  /\ supplied = task_run_state
  /\ retries = 0
  /\ pc = "new"
  /\ fn_outcome = "none"
  /\ polls = 0
  /\ fn_calls = 0
  /\ nprop = 0
  /\ last_prop = [state |-> "-", force |-> FALSE]
  /\ edge = <<"-", "-">>
  /\ all_accepted = TRUE
  /\ plain_returns = TRUE
  /\ final_recorded = FALSE
  /\ cond_result = "none"
  /\ exit_kind = "running"
  /\ hooks_todo = <<>>
  /\ hooks_called = <<>>
  /\ hook_lists = NoHooks
  /\ return_type = "-"
  /\ prop_cache_expiration = FALSE
  /\ is_started = FALSE
  /\ client_handle = "None"
  /\ task_name_set = FALSE
  /\ name_calls = 0

NoProp == [state |-> "-", force |-> FALSE]

\* the engine as run_task_sync constructs it for a task and the task run
\* it is given; the task's task_run_name is drawn from templates
EngineConstructed(templates) ==
  /\ task \in [retries : 0..MaxRetries, has_retry_condition_fn : BOOLEAN,
               cache_expiration : BOOLEAN, task_run_name : templates]
  /\ task_run_state \in SuppliedStates
  /\ server_state = task_run_state
  /\ supplied = task_run_state
  /\ retries = 0
  /\ pc = "new"
  /\ fn_outcome = "none"
  /\ polls = 0
  /\ fn_calls = 0
  /\ nprop = 0
  /\ last_prop = NoProp
  /\ edge = <<"-", "-">>
  /\ all_accepted = TRUE
  /\ plain_returns = TRUE
  /\ final_recorded = FALSE
  /\ cond_result = "none"
  /\ exit_kind = "running"
  /\ hooks_todo = <<>>
  /\ hooks_called = <<>>
  /\ hook_lists = NoHooks
  /\ return_type = "-"
  /\ prop_cache_expiration = FALSE
  /\ is_started = FALSE
  /\ client_handle = "None"
  /\ task_name_set = FALSE
  /\ name_calls = 0
  /\ mode = "start"
  /\ limit = NoLimit
  /\ RunnerFresh
  /\ PollFresh
  /\ DownFresh
  /\ CtorFresh
  /\ UnitFresh

\* run_task_sync is called for a task that has no task_run_name
EngineInit == EngineConstructed({FALSE})

\* run_task_sync is called for a task with or without a task_run_name
NamedInit == EngineConstructed(BOOLEAN)

\* One call of set_state(proposed, force) answered by resp.  When set_state
\* returns, the engine goes on at cont and run_task ends as exit_after says
\* ("running": it has not ended); when it raises, the signal leaves the
\* start block.
Propose(proposed, force, resp, cont, exit_after) ==
  LET r == set_state(task_run_state, proposed, resp) IN
  /\ nprop' = nprop + 1
  /\ last_prop' = [state |-> proposed, force |-> force]
  /\ all_accepted' = (all_accepted /\ resp.kind = "accept")
  /\ server_state' = ServerAfter(server_state, proposed, resp)
  /\ task_run_state' = r.state
  /\ IF r.raised = "none"
       THEN /\ edge' = <<task_run_state, r.state>>
            /\ final_recorded' = (final_recorded \/ is_final(r.state))
            /\ pc' = cont
            /\ exit_kind' = exit_after
       ELSE /\ UNCHANGED <<edge, final_recorded>>
            /\ pc' = "done"
            /\ exit_kind' = r.raised

\* _compute_state_details, its cache_expiration: whether the details it
\* builds carry one that is not None
compute_state_details(include_cache_expiration) ==
  IF include_cache_expiration THEN task.cache_expiration ELSE FALSE

\* TaskRunEngine.start, up to the yield
\* TaskRunEngine.client: the client, or RuntimeError("Engine has not
\* started.")
client ==
  IF ~ is_started \/ client_handle = "None" THEN "RuntimeError"
  ELSE client_handle

\* the with block of start around a step of the run: entered, _client and
\* _is_started are set; when the step leaves the block, its finally clause
\* sets _is_started = False and _client = None
StartBlock ==
  /\ is_started' = (pc' # "done")
  /\ client_handle' = IF pc' # "done" THEN "client" ELSE "None"

\* start for an engine that has no task run: task.create_run raises.  The
\* finally clause evaluates self.state for its log line, which raises
\* ValueError("Task run is not set") before _is_started and _client are
\* reset
EngineStartCreateRunRaises ==
  /\ pc = "new"
  /\ task_run_state = "NoRun"
  /\ pc' = "done"
  /\ exit_kind' = "Exception"
  /\ is_started' = TRUE
  /\ client_handle' = "client"
  /\ UNCHANGED <<task, task_run_state, server_state, retries, fn_outcome,
                 polls, fn_calls, nprop, last_prop, edge, all_accepted,
                 plain_returns, final_recorded, cond_result, supplied,
                 endVars, prop_cache_expiration>>

EngineStart ==
  /\ pc = "new"
  /\ pc' = "begin"
  /\ task_run_state' = IF task_run_state = "NoRun" THEN "Pending" ELSE task_run_state
  /\ server_state' = task_run_state'
  /\ UNCHANGED prop_cache_expiration
  /\ UNCHANGED <<task, supplied, endVars, retries, fn_outcome, polls, fn_calls, nprop, last_prop,
                 edge, all_accepted, plain_returns, final_recorded,
                 cond_result, exit_kind>>

\* begin_run when parameter or wait_for resolution raises UpstreamTaskError
BeginRunUpstreamError ==
  /\ pc = "begin"
  /\ \E resp \in Responses(is_pending(task_run_state)) :
       Propose("NotReady", is_pending(task_run_state), resp, "loop", "running")
  /\ prop_cache_expiration' = FALSE
  /\ UNCHANGED <<task, supplied, endVars, retries, fn_outcome, polls, fn_calls, plain_returns,
                 cond_result>>

\* begin_run when resolution raises something else: an ordinary exception
\* leaves the start block as it is, any other failure through handle_crash
BeginRunResolveRaises ==
  /\ pc = "begin"
  /\ \/ /\ pc' = "done"
        /\ exit_kind' = "Exception"
        /\ UNCHANGED <<task_run_state, server_state, nprop, last_prop, edge,
                       all_accepted, final_recorded, prop_cache_expiration>>
     \/ /\ Propose("Crashed", TRUE, Accept, "done", "BaseException")
        /\ prop_cache_expiration' = FALSE
  /\ UNCHANGED <<task, supplied, endVars, retries, fn_outcome, polls, fn_calls, plain_returns,
                 cond_result>>

AfterRunningMutPendingOnly(new) == IF is_pending(new) THEN "poll" ELSE "loop"

\* begin_run: the test of its polling loop
AfterRunning(new) == IF is_pending(new) \/ is_paused(new) THEN "poll" ELSE "loop"

\* begin_run: the first proposal of Running
BeginRunRunning ==
  /\ pc = "begin"
  /\ \E resp \in Responses(FALSE) :
       Propose("Running", FALSE, resp,
               AfterRunning(set_state(task_run_state, "Running", resp).state),
               "running")
  /\ prop_cache_expiration' = compute_state_details(FALSE)
  /\ UNCHANGED <<task, supplied, endVars, retries, fn_outcome, polls, fn_calls, plain_returns,
                 cond_result>>

\* begin_run: one round of the polling loop
BeginRunPoll ==
  /\ pc = "poll"
  /\ polls < MaxPolls
  /\ polls' = polls + 1
  /\ \E resp \in Responses(FALSE) :
       Propose("Running", FALSE, resp,
               AfterRunning(set_state(task_run_state, "Running", resp).state),
               "running")
  /\ prop_cache_expiration' = compute_state_details(FALSE)
  /\ UNCHANGED <<task, supplied, endVars, retries, fn_outcome, fn_calls, plain_returns,
                 cond_result>>

FnOutcomes == {"value", "returns_state", "timeout", "exception", "base_exception"}

NameDueMutEveryAttempt(name_set, template) == template

\* enter_run_context: `not self._task_name_set and self.task.task_run_name`
NameDue(name_set, template) == ~ name_set /\ template

\* run_task_sync: the loop test, enter_run_context (which reads the task run
\* back from the API and, when the name is due, resolves it, calls
\* set_task_run_name and sets _task_name_set) and the call of task.fn
InvokeFn ==
  /\ pc = "loop"
  /\ is_running(task_run_state)
  /\ fn_calls < MaxCalls
  /\ IF NameDue(task_name_set, task.task_run_name)
       THEN name_calls' = name_calls + 1 /\ task_name_set' = TRUE
       ELSE UNCHANGED nameVars
  /\ task_run_state' = server_state
  /\ edge' = IF server_state = task_run_state THEN edge
             ELSE <<task_run_state, server_state>>
  /\ fn_calls' = fn_calls + 1
  /\ fn_outcome' \in FnOutcomes
  /\ pc' = "handle"
  /\ UNCHANGED prop_cache_expiration
  /\ UNCHANGED <<task, supplied, endVars, server_state, retries, polls, nprop, last_prop,
                 all_accepted, plain_returns, final_recorded, cond_result,
                 exit_kind>>

\* handle_success
HandleSuccess ==
  /\ pc = "handle"
  /\ fn_outcome \in {"value", "returns_state"}
  /\ fn_outcome' = "none"
  /\ plain_returns' = (plain_returns /\ fn_outcome = "value")
  /\ \E terminal \in (IF fn_outcome = "value" THEN {"Completed"} ELSE ReturnedStates),
        resp \in Responses(FALSE) :
       Propose(terminal, FALSE, resp, "loop", "running")
  /\ prop_cache_expiration' = compute_state_details(TRUE)
  /\ UNCHANGED <<task, supplied, endVars, retries, polls, fn_calls, cond_result>>

CanRetryMutRaisesRetries(c) == c \in {"absent", "truthy", "raises"}

\* TaskRunEngine.can_retry
can_retry(c) == c \in {"absent", "truthy"}

RetriesLeftMutOffByOne(used, allowed) == used <= allowed

\* the first conjunct of handle_retry's test
RetriesLeft(used, allowed) == used < allowed

\* what the retry_condition_fn check of can_retry may give: it is made only
\* when retries are left ("not_called" otherwise)
CondResults ==
  IF ~ RetriesLeft(retries, task.retries) THEN {"not_called"}
  ELSE IF ~ task.has_retry_condition_fn THEN {"absent"}
  ELSE {"truthy", "falsy", "raises"}

HandleTimeoutMutRetries ==
  /\ pc = "handle"
  /\ fn_outcome = "timeout"
  /\ fn_outcome' = "none"
  /\ IF RetriesLeft(retries, task.retries)
       THEN /\ Propose("Retrying", TRUE, Accept, "loop", "running")
            /\ retries' = retries + 1
       ELSE /\ \E resp \in Responses(FALSE) :
                 Propose("TimedOut", FALSE, resp, "loop", "running")
            /\ retries' = retries
  /\ prop_cache_expiration' = FALSE
  /\ UNCHANGED <<task, supplied, endVars, polls, fn_calls, plain_returns, cond_result>>

\* handle_timeout
HandleTimeout ==
  /\ pc = "handle"
  /\ fn_outcome = "timeout"
  /\ fn_outcome' = "none"
  /\ \E resp \in Responses(FALSE) :
       Propose("TimedOut", FALSE, resp, "loop", "running")
  /\ prop_cache_expiration' = FALSE
  /\ UNCHANGED <<task, supplied, endVars, retries, polls, fn_calls, plain_returns, cond_result>>

HandleExceptionMutPropagates ==
  /\ pc = "handle"
  /\ fn_outcome = "exception"
  /\ fn_outcome' = "none"
  /\ pc' = "done"
  /\ exit_kind' = "Exception"
  /\ UNCHANGED <<task, supplied, endVars, prop_cache_expiration, task_run_state,
                 server_state, retries, polls, fn_calls, nprop, last_prop,
                 edge, all_accepted, plain_returns, final_recorded,
                 cond_result>>

\* handle_exception with handle_retry
HandleException ==
  /\ pc = "handle"
  /\ fn_outcome = "exception"
  /\ fn_outcome' = "none"
  /\ \E c \in CondResults :
       /\ cond_result' = c
       /\ IF RetriesLeft(retries, task.retries) /\ can_retry(c)
            THEN /\ Propose("Retrying", TRUE, Accept, "loop", "running")
                 /\ retries' = retries + 1
            ELSE /\ \E resp \in Responses(FALSE) :
                      Propose("Failed", FALSE, resp, "loop", "running")
                 /\ retries' = retries
  /\ prop_cache_expiration' = FALSE
  /\ UNCHANGED <<task, supplied, endVars, polls, fn_calls, plain_returns>>

HandleCrashMutNoProposal ==
  /\ pc = "handle"
  /\ fn_outcome = "base_exception"
  /\ fn_outcome' = "none"
  /\ pc' = "done"
  /\ exit_kind' = "BaseException"
  /\ UNCHANGED prop_cache_expiration
  /\ UNCHANGED <<task, supplied, endVars, task_run_state, server_state, retries, polls,
                 fn_calls, nprop, last_prop, edge, all_accepted, plain_returns,
                 final_recorded, cond_result>>

\* a failure of task.fn that is no ordinary exception: start's handler
\* calls handle_crash and re-raises
HandleCrash ==
  /\ pc = "handle"
  /\ fn_outcome = "base_exception"
  /\ fn_outcome' = "none"
  /\ Propose("Crashed", TRUE, Accept, "done", "BaseException")
  /\ prop_cache_expiration' = FALSE
  /\ UNCHANGED <<task, supplied, endVars, retries, polls, fn_calls, plain_returns, cond_result>>

\* run_task_sync: the loop ends when the state is not running
LoopExit ==
  /\ pc = "loop"
  /\ ~ is_running(task_run_state)
  /\ pc' = "hooks"
  /\ UNCHANGED prop_cache_expiration
  /\ UNCHANGED <<task, supplied, endVars, task_run_state, server_state, retries, fn_outcome,
                 polls, fn_calls, nprop, last_prop, edge, all_accepted,
                 plain_returns, final_recorded, cond_result, exit_kind>>

HookOutcomes == {"returned", "exception", "base_exception"}

\* the lengths of the hook lists of the tasks run: none, or MaxHooks hooks
HookListLengths == {0, MaxHooks}

GetHooksMutSwapsLists(state, lists) ==
  IF is_failed(state) /\ lists.on_failure > 0
    THEN [i \in 1..lists.on_completion |-> <<"on_completion", i>>]
  ELSE IF is_completed(state) /\ lists.on_completion > 0
    THEN [i \in 1..lists.on_failure |-> <<"on_failure", i>>]
  ELSE <<>>

\* get_hooks: the list it iterates, hooks named by their list and position
get_hooks(state, lists) ==
  IF is_failed(state) /\ lists.on_failure > 0
    THEN [i \in 1..lists.on_failure |-> <<"on_failure", i>>]
  ELSE IF is_completed(state) /\ lists.on_completion > 0
    THEN [i \in 1..lists.on_completion |-> <<"on_completion", i>>]
  ELSE <<>>

\* run_task_sync: the test run.state.is_final() and the first step of
\* get_hooks for the task's hook lists
GetHooks ==
  /\ pc = "hooks"
  /\ IF is_final(task_run_state)
       THEN \E lists \in [on_failure : HookListLengths,
                            on_completion : HookListLengths] :
              /\ hook_lists' = lists
              /\ hooks_todo' = get_hooks(task_run_state, lists)
              /\ pc' = IF hooks_todo' = <<>> THEN "return" ELSE "hook"
       ELSE /\ pc' = "return"
            /\ UNCHANGED <<hook_lists, hooks_todo>>
  /\ UNCHANGED <<task, supplied, hooks_called, return_type,
                 prop_cache_expiration, task_run_state, server_state, retries,
                 fn_outcome, polls, fn_calls, nprop, last_prop, edge,
                 all_accepted, plain_returns, final_recorded, cond_result,
                 exit_kind>>

\* run_task_sync: one call of a hook inside hook_context.  An ordinary
\* exception is logged by hook_context; any other failure reaches start's
\* handler.
RunHook ==
  /\ pc = "hook"
  /\ hooks_todo # <<>>
  /\ \E o \in HookOutcomes :
       /\ hooks_called' = Append(hooks_called, <<Head(hooks_todo), o>>)
       /\ hooks_todo' = Tail(hooks_todo)
       /\ IF o = "base_exception"
            THEN /\ Propose("Crashed", TRUE, Accept, "done", "BaseException")
                 /\ prop_cache_expiration' = FALSE
            ELSE /\ pc' = IF hooks_todo' = <<>> THEN "return" ELSE "hook"
                 /\ UNCHANGED <<task_run_state, server_state, nprop, last_prop,
                                edge, all_accepted, final_recorded, exit_kind,
                                prop_cache_expiration>>
  /\ UNCHANGED <<task, supplied, hook_lists, return_type, retries, fn_outcome,
                 polls, fn_calls, plain_returns, cond_result>>

ReturnTypes == {"state", "result"}

\* run_task_sync: return run.state, or run.result(), which raises unless
\* the state is Completed
Return ==
  /\ pc = "return"
  /\ pc' = "done"
  /\ return_type' \in ReturnTypes
  /\ exit_kind' = IF return_type' = "state" \/ is_completed(task_run_state)
                    THEN "returned" ELSE "Exception"
  /\ UNCHANGED <<task, supplied, hooks_todo, hooks_called, hook_lists,
                 prop_cache_expiration, task_run_state, server_state, retries,
                 fn_outcome, polls, fn_calls, nprop, last_prop, edge,
                 all_accepted, plain_returns, final_recorded, cond_result>>

EngineNext ==
  \/ (EngineStart /\ StartBlock /\ UNCHANGED <<nameVars, runnerVars, otherVars>>)
  \/ (EngineStartCreateRunRaises /\ UNCHANGED <<nameVars, runnerVars, otherVars>>)
  \/ (BeginRunUpstreamError /\ StartBlock /\ UNCHANGED <<nameVars, runnerVars, otherVars>>)
  \/ (BeginRunResolveRaises /\ StartBlock /\ UNCHANGED <<nameVars, runnerVars, otherVars>>)
  \/ (BeginRunRunning /\ StartBlock /\ UNCHANGED <<nameVars, runnerVars, otherVars>>)
  \/ (BeginRunPoll /\ StartBlock /\ UNCHANGED <<nameVars, runnerVars, otherVars>>)
  \/ (InvokeFn /\ StartBlock /\ UNCHANGED <<runnerVars, otherVars>>)
  \/ (HandleSuccess /\ StartBlock /\ UNCHANGED <<nameVars, runnerVars, otherVars>>)
  \/ (HandleTimeout /\ StartBlock /\ UNCHANGED <<nameVars, runnerVars, otherVars>>)
  \/ (HandleException /\ StartBlock /\ UNCHANGED <<nameVars, runnerVars, otherVars>>)
  \/ (HandleCrash /\ StartBlock /\ UNCHANGED <<nameVars, runnerVars, otherVars>>)
  \/ (LoopExit /\ StartBlock /\ UNCHANGED <<nameVars, runnerVars, otherVars>>)
  \/ (GetHooks /\ StartBlock /\ UNCHANGED <<nameVars, runnerVars, otherVars>>)
  \/ (RunHook /\ StartBlock /\ UNCHANGED <<nameVars, runnerVars, otherVars>>)
  \/ (Return /\ StartBlock /\ UNCHANGED <<nameVars, runnerVars, otherVars>>)

SpecEngine == EngineInit /\ [][EngineNext]_vars

\* run_task_sync is one thread of control: a step that can be taken is
\* taken
SpecEngineFair == SpecEngine /\ WF_vars(EngineNext)

\* run_task_sync for tasks with and without a task_run_name
SpecEngineNamed == NamedInit /\ [][EngineNext]_vars

(***************************************************************************)
(* Task engine: properties.                                                *)
(***************************************************************************)
NoEdge == <<"-", "-">>

RunningNames == {"Running", "Retrying"}

FinalNames == {"Completed", "Failed", "TimedOut", "Crashed", "Cancelled"}

\* the edges of the state machine as the specification draws it
ClaimedEdges ==
  {<<"Pending", "Pending">>, <<"Pending", "Running">>, <<"Pending", "NotReady">>,
   <<"Running", "Retrying">>, <<"Retrying", "Running">>}
  \cup ({"Running"} \X {"Completed", "Failed", "TimedOut", "Crashed", "Paused"})

AcceptedEdges ==
  {<<"Pending", "Running">>, <<"Pending", "NotReady">>,
   <<"Running", "Retrying">>, <<"Retrying", "Retrying">>}
  \cup (RunningNames \X {"Completed", "Failed", "TimedOut", "Crashed"})
  \cup ({"Pending", "Completed", "Failed", "TimedOut"} \X {"Crashed"})

C4_RetriesBounded ==
  /\ retries <= task.retries
  /\ [][ /\ retries' <= task'.retries
         /\ (retries' # retries =>
               /\ retries' = retries + 1
               /\ nprop' = nprop + 1
               /\ last_prop'.state = "Retrying"
               /\ task_run_state' = "Retrying")
         /\ ((nprop' # nprop /\ last_prop'.state = "Retrying") =>
               /\ task_run_state' = "Retrying"
               /\ retries' = retries + 1) ]_vars

\* every retry is used up: the second Retrying of a task with retries = 2
C4_Witness ==
  /\ task.retries = 2 /\ retries = 2
  /\ task_run_state = "Retrying"
  /\ edge = <<"Retrying", "Retrying">>

\* C5: task.fn is called only while the recorded state is Running or
\* Retrying, and never once set_state has recorded a final state.
C5_NoCallAfterFinal ==
  [][ fn_calls' # fn_calls =>
        /\ task_run_state \in RunningNames
        /\ task_run_state' \in RunningNames
        /\ ~ final_recorded ]_vars

\* a run that called task.fn twice and then recorded a final state
C5_Witness ==
  /\ fn_calls = 2
  /\ final_recorded
  /\ task_run_state \in FinalNames
  /\ pc = "done"

\* C10: handling an ordinary exception of task.fn, the engine proposes
\* Retrying with force, counts the retry and is back at the loop test in a
\* Running-type state exactly when retries < task.retries and the retry
\* predicate is absent or truthy; otherwise (retries used up, predicate
\* falsy, predicate raising) it proposes Failed without force and leaves
\* retries alone.  The predicate is consulted only when retries are left.
C10_RetryIffEligible ==
  [][ (fn_outcome = "exception" /\ fn_outcome' = "none") =>
        /\ nprop' = nprop + 1
        /\ (cond_result' = "not_called") <=> ~ (retries < task.retries)
        /\ (cond_result' = "absent") =>  ~ task.has_retry_condition_fn
        /\ IF retries < task.retries /\ cond_result' \in {"absent", "truthy"}
             THEN /\ last_prop' = [state |-> "Retrying", force |-> TRUE]
                  /\ retries' = retries + 1
                  /\ task_run_state' = "Retrying"
                  /\ pc' = "loop"
             ELSE /\ last_prop' = [state |-> "Failed", force |-> FALSE]
                  /\ retries' = retries ]_vars

\* one retry was taken, then the predicate raised with a retry still left
C10_Witness ==
  /\ task.retries = 2 /\ retries = 1
  /\ cond_result = "raises"
  /\ last_prop = [state |-> "Failed", force |-> FALSE]
  /\ fn_calls = 2

C12_CrashOnlyForSevereFailure ==
  [][ /\ (exit_kind = "running" /\ exit_kind' = "BaseException") =>
           /\ nprop' = nprop + 1
           /\ last_prop' = [state |-> "Crashed", force |-> TRUE]
      /\ (exit_kind = "running" /\ exit_kind' \in {"Pause", "Abort", "Exception"}) =>
           (nprop' = nprop \/ last_prop'.state # "Crashed")
      /\ (nprop' # nprop /\ last_prop'.state = "Crashed") =>
           /\ last_prop'.force
           /\ exit_kind' = "BaseException" ]_vars

\* task.fn ended with a failure that is no ordinary exception: Crashed was
\* proposed with force and recorded, and the failure has left run_task
C12_Witness ==
  /\ exit_kind = "BaseException"
  /\ fn_calls = 1
  /\ last_prop = [state |-> "Crashed", force |-> TRUE]
  /\ edge = <<"Running", "Crashed">>
  /\ pc = "done"

C14_NoCallAfterNotReady ==
  [][ fn_calls' # fn_calls => last_prop.state # "NotReady" ]_vars

\* the hooks called so far, without their outcomes
HooksCalledNames == [i \in 1..Len(hooks_called) |-> hooks_called[i][1]]

\* the hooks C15 says are called for a state
HooksDue(state) ==
  IF is_failed(state)
    THEN [i \in 1..hook_lists.on_failure |-> <<"on_failure", i>>]
  ELSE IF is_completed(state)
    THEN [i \in 1..hook_lists.on_completion |-> <<"on_completion", i>>]
  ELSE <<>>

\* C15: when run_task_sync comes to its return statement, the hooks called
\* are exactly those of task.on_failure for a Failed final state, those of
\* task.on_completion for a Completed one, each once and in list order, and
\* none for a Crashed, Cancelled or non-final state; a hook that raises an
\* ordinary exception leaves the state as it is, proposes nothing and is
\* followed by the remaining hooks.
C15_HooksOnceInOrder ==
  [][ /\ pc' = "return" => HooksCalledNames' = HooksDue(task_run_state')
      /\ \A h \in {"on_failure", "on_completion"} \X (1..MaxHooks) :
           hooks_called' = Append(hooks_called, <<h, "exception">>) =>
             /\ task_run_state' = task_run_state
             /\ nprop' = nprop
             /\ hooks_todo' = Tail(hooks_todo)
             /\ exit_kind' = "running" ]_vars

\* C15: both hooks of on_failure were called in order for a Failed state,
\* the first of them raising
C15_Witness ==
  /\ pc = "return"
  /\ task_run_state = "Failed"
  /\ hook_lists = [on_failure |-> 2, on_completion |-> 2]
  /\ hooks_called = << <<<<"on_failure", 1>>, "exception">>,
                       <<<<"on_failure", 2>>, "returned">> >>

\* C16, as claimed: of the states the engine proposes, only a Completed
\* state carries a cache_expiration that is not None; the Running state of
\* begin_run, every Pending, Retrying, Failed and Crashed state, and every
\* non-Completed state made from the function's return value carry None.
C16_ExpirationOnlyOnCompleted ==
  prop_cache_expiration => last_prop.state = "Completed"

\* C17: an ordinary exception of the task function does not leave
\* run_task_sync: it is turned into a proposal of Retrying or Failed.  With
\* return_type "state" the return statement returns the state, a Failed
\* final state included; with return_type "result" it returns when the state
\* is Completed and raises otherwise.  An exception leaves the call only
\* from start's create_run, from begin_run's resolution or from that
\* result() call.
C17_ExceptionBecomesState ==
  [][ /\ (pc = "handle" /\ fn_outcome = "exception") =>
           /\ nprop' = nprop + 1
           /\ last_prop'.state \in {"Retrying", "Failed"}
           /\ exit_kind' # "Exception"
      /\ (pc = "return" /\ pc' = "done") =>
           /\ task_run_state' = task_run_state
           /\ return_type' = "state" => exit_kind' = "returned"
           /\ return_type' = "result" =>
                exit_kind' = IF is_completed(task_run_state)
                               THEN "returned" ELSE "Exception"
      /\ (exit_kind = "running" /\ exit_kind' = "Exception") =>
           \/ pc = "new"
           \/ pc = "begin"
           \/ pc = "return" /\ return_type' = "result"
                            /\ ~ is_completed(task_run_state) ]_vars

\* C17: the function raised on both attempts and the call returned the
\* Failed state
C17_Witness ==
  /\ pc = "done"
  /\ return_type = "state"
  /\ exit_kind = "returned"
  /\ task_run_state = "Failed"
  /\ last_prop = [state |-> "Failed", force |-> FALSE]
  /\ task.retries = 1
  /\ retries = 1
  /\ fn_calls = 2
  /\ plain_returns

\* the runs C18 speaks of: every proposal was accepted, every attempt
\* returned a plain value or raised an ordinary exception, the retry
\* predicate was absent or truthy, and nothing else failed
OrdinaryRun ==
  /\ all_accepted
  /\ plain_returns
  /\ cond_result \notin {"falsy", "raises"}
  /\ last_prop.state \in {"Completed", "Failed"}

\* C18: with a server that accepts every proposal the engine terminates,
\* and never calls the task function more than task.retries + 1 times; a
\* run whose attempts only return or raise ordinary exceptions, with the
\* retry predicate absent or truthy, ends Completed after k <= task.retries
\* + 1 calls with k - 1 retries used, or Failed after task.retries + 1 calls
\* with task.retries retries used.
C18_TerminatesAfterBoundedCalls ==
  /\ <>(pc = "done" \/ ~ all_accepted)
  /\ [](all_accepted => fn_calls <= task.retries + 1)
  /\ []((pc = "done" /\ OrdinaryRun) =>
          \/ /\ task_run_state = "Completed"
             /\ fn_calls <= task.retries + 1
             /\ retries = fn_calls - 1
          \/ /\ task_run_state = "Failed"
             /\ fn_calls = task.retries + 1
             /\ retries = task.retries)

\* C18: the second of three allowed attempts returned cleanly
C18_Witness ==
  /\ pc = "done"
  /\ OrdinaryRun
  /\ task.retries = 2
  /\ fn_calls = 2
  /\ retries = 1
  /\ task_run_state = "Completed"

\* the server answered the Running proposal, the last proposal made, with
\* a Completed state
CacheHit ==
  /\ last_prop.state = "Running"
  /\ edge[2] = "Completed"
  /\ is_completed(task_run_state)

\* C19: when the server answers the Running proposal with a Completed state
\* the engine leaves begin_run for the attempt loop with that state, never
\* calls the task function, and, when run_task_sync ends with that state,
\* it ends by returning (the state, or its result), for either return_type.
C19_CacheHitSkipsFn ==
  [][ /\ CacheHit' =>
           /\ fn_calls' = 0
           /\ pc' \in {"loop", "hooks", "hook", "return", "done"}
           /\ pc' = "done" => (exit_kind' = "returned" /\ return_type' \in ReturnTypes)
      /\ CacheHit => (CacheHit' \/ last_prop'.state = "Crashed")
      /\ (nprop' = nprop + 1 /\ CacheHit') => (pc' = "loop" /\ exit_kind' = "running") ]_vars

\* C19: a run the engine created was answered Completed on its first
\* Running proposal and returned that state's result without a call
C19_Witness ==
  /\ CacheHit
  /\ supplied = "NoRun"
  /\ nprop = 1
  /\ fn_calls = 0
  /\ pc = "done"
  /\ return_type = "result"
  /\ exit_kind = "returned"

(***************************************************************************)
(* Runner: the capacity limiter and the submit loop.                       *)
(***************************************************************************)
\* FlowRun.next_scheduled_start_time, the key a tick sorts its candidates by
next_scheduled_start_time(f) == f

\* mutant of Sorted: latest first
RECURSIVE SortedMutDescending(_)
SortedMutDescending(S) ==
  IF S = {} THEN <<>>
  ELSE LET m == CHOOSE x \in S : \A y \in S :
                  next_scheduled_start_time(x) >= next_scheduled_start_time(y)
       IN <<m>> \o SortedMutDescending(S \ {m})

\* submittable_flow_runs.sort(key = next_scheduled_start_time)
RECURSIVE Sorted(_)
Sorted(S) ==
  IF S = {} THEN <<>>
  ELSE LET m == CHOOSE x \in S : \A y \in S :
                  next_scheduled_start_time(x) <= next_scheduled_start_time(y)
       IN <<m>> \o Sorted(S \ {m})

\* limiter.acquire_on_behalf_of_nowait(f): "ok", WouldBlock, or RuntimeError
\* for a borrower that already holds a token
Acquire(held, f) ==
  IF limit = NoLimit THEN "ok"
  ELSE IF f \in held THEN "error"
  ELSE IF Cardinality(held) >= limit THEN "would_block"
  ELSE "ok"

\* limiter.release_on_behalf_of(f), guarded by `if self._limiter`:
\* RuntimeError for a borrower that holds no token
Release(held, f) ==
  IF limit = NoLimit THEN [held |-> held, error |-> FALSE]
  ELSE IF f \in held THEN [held |-> held \ {f}, error |-> FALSE]
  ELSE [held |-> held, error |-> TRUE]

MarkSubmittingMutSkipped(ids, f) == ids

\* self._submitting_flow_run_ids.add(flow_run.id) of the submit loop
MarkSubmitting(ids, f) == ids \cup {f}

OnWouldBlockMutSubmits(order, st) ==
  [st EXCEPT !.submitting = @ \cup {Head(order)},
             !.spawned = @ \cup {Head(order)}]

\* the submit loop on WouldBlock: log and stop processing candidates
OnWouldBlock(order, st) == st

AlreadySubmittingMutNever(ids, f) == FALSE

\* `if flow_run.id in self._submitting_flow_run_ids: continue`
AlreadySubmitting(ids, f) == f \in ids

\* the for loop of _submit_scheduled_flow_runs over the sorted candidates;
\* st is [borrowers, submitting, spawned, error]
RECURSIVE submit_scheduled(_, _)
submit_scheduled(order, st) ==
  IF order = <<>> THEN st
  ELSE LET f == Head(order)
           got == Acquire(st.borrowers, f)
       IN IF AlreadySubmitting(st.submitting, f)
            THEN submit_scheduled(Tail(order), st)
          ELSE IF got = "error" THEN [st EXCEPT !.error = TRUE]
          ELSE IF got = "would_block" THEN OnWouldBlock(order, st)
          ELSE submit_scheduled(
                 Tail(order),
                 [borrowers |-> IF limit = NoLimit THEN st.borrowers
                                ELSE st.borrowers \cup {f},
                  submitting |-> MarkSubmitting(st.submitting, f),
                  spawned |-> st.spawned \cup {f},
                  error |-> FALSE])

\* one tick of the submit loop: get_and_submit_flow_runs.  The server's
\* answer is any set of flow runs; a RuntimeError of the limiter ends the
\* tick where it is raised.
SubmitTick ==
  /\ mode = "start"
  /\ ~ tg_crashed
  /\ \E cands \in SUBSET FlowRuns :
       LET st == submit_scheduled(
                   Sorted(cands),
                   [borrowers |-> borrowers,
                    submitting |-> submitting_flow_run_ids,
                    spawned |-> {}, error |-> FALSE])
       IN /\ borrowers' = st.borrowers
          /\ submitting_flow_run_ids' = st.submitting
          /\ sub' = [f \in FlowRuns |-> IF f \in st.spawned THEN "check" ELSE sub[f]]
          /\ limiter_error' = (limiter_error \/ st.error)
          /\ tick' = [cands |-> cands, already |-> submitting_flow_run_ids,
                      spawned |-> st.spawned]
  /\ UNCHANGED <<mode, limit, flow_run_process_map, cancelling_flow_run_ids,
                 mon, ready, exec_pc, cancel_pc, named_result, ctasks,
                 delayed, tg_crashed, spawns, kills>>

\* any other step: the record of the tick is dropped
TickOver == tick' = NoTick

OnCheckFailedMutKeepsId(ids, f) == ids

\* the handler of ValueError and ObjectNotFound in _submit_run:
\* self._submitting_flow_run_ids.remove(flow_run.id)
OnCheckFailed(ids, f) == ids \ {f}

\* _submit_run up to the state proposal: _check_flow_run passes, or raises
\* ValueError / ObjectNotFound (logged, the id removed, return), or raises
\* something else, which leaves _submit_run
SubmitCheck(f) ==
  /\ sub[f] = "check"
  /\ ~ tg_crashed
  /\ \/ /\ sub' = [sub EXCEPT ![f] = "propose"]
        /\ UNCHANGED <<submitting_flow_run_ids, tg_crashed>>
     \/ /\ sub' = [sub EXCEPT ![f] = "none"]
        /\ submitting_flow_run_ids' = OnCheckFailed(submitting_flow_run_ids, f)
        /\ tg_crashed' = (f \notin submitting_flow_run_ids)
     \/ /\ sub' = [sub EXCEPT ![f] = "none"]
        /\ tg_crashed' = TRUE
        /\ UNCHANGED submitting_flow_run_ids
  /\ UNCHANGED <<mode, limit, borrowers, flow_run_process_map,
                 cancelling_flow_run_ids, mon, ready, exec_pc, cancel_pc,
                 named_result, ctasks, delayed, limiter_error, spawns, kills>>

(***************************************************************************)
(* Runner: _propose_pending_state.  propose_state returns the state the    *)
(* server holds after the proposal (Pending when it accepts), or raises    *)
(* the signal Abort or Pause, or fails with an exception of the client.    *)
(***************************************************************************)
\* the states a flow run may be returned in
FlowRunStates ==
  {"Scheduled", "Pending", "Running", "Completed", "Failed", "Crashed",
   "Cancelling", "Cancelled"}

\* what propose_state(client, Pending(), flow_run_id) may end with
PendingAnswers == FlowRunStates \cup {"Abort", "Pause", "Exception"}

\* _propose_pending_state for an answer: "True", "False", or the name of
\* what it raises.  Abort and Exception are caught; the other signal of
\* propose_state, Pause, is no Exception and passes both handlers
propose_pending_state(answer) ==
  CASE answer = "Abort" -> "False"
    [] answer = "Exception" -> "False"
    [] answer = "Pause" -> "Pause"
    [] OTHER -> IF is_pending(answer) THEN "True" ELSE "False"

\* what the Pending proposal for f may be answered: the server accepts
\* Pending only for a flow run that has no process
PendingAnswersFor(f) ==
  IF mon[f] = "none" THEN PendingAnswers
  ELSE {a \in PendingAnswers : propose_pending_state(a) # "True"}

\* _submit_run from _propose_pending_state on.  When it returns True the
\* monitor task is started and _submit_run waits for its task_status; when
\* it returns False (Abort, an exception or another state) the slot is
\* released and the id removed; when it raises, _submit_run is left there.
SubmitPropose(f) ==
  /\ sub[f] = "propose"
  /\ ~ tg_crashed
  /\ \E a \in PendingAnswersFor(f) :
       LET ready_to_submit == propose_pending_state(a)
           rel == Release(borrowers, f)
       IN CASE ready_to_submit = "True" ->
                 /\ sub' = [sub EXCEPT ![f] = "start"]
                 /\ mon' = [mon EXCEPT ![f] = "starting"]
                 /\ UNCHANGED <<borrowers, submitting_flow_run_ids,
                                tg_crashed, limiter_error>>
            [] ready_to_submit = "False" ->
                 /\ sub' = [sub EXCEPT ![f] = "none"]
                 /\ borrowers' = rel.held
                 /\ limiter_error' = (limiter_error \/ rel.error)
                 /\ submitting_flow_run_ids' =
                      IF rel.error THEN submitting_flow_run_ids
                      ELSE submitting_flow_run_ids \ {f}
                 /\ tg_crashed' =
                      (rel.error \/ f \notin submitting_flow_run_ids)
                 /\ UNCHANGED mon
            [] OTHER ->
                 /\ sub' = [sub EXCEPT ![f] = "none"]
                 /\ tg_crashed' = TRUE
                 /\ UNCHANGED <<borrowers, submitting_flow_run_ids, mon,
                                limiter_error>>
  /\ UNCHANGED <<mode, limit, flow_run_process_map, cancelling_flow_run_ids,
                 ready, exec_pc, cancel_pc, named_result, ctasks, delayed,
                 spawns, kills>>

\* _submit_run resumed by task_status.started: a pid is entered in the
\* process map (an exception is not), then the id is removed
SubmitResume(f) ==
  /\ sub[f] = "start"
  /\ ready[f] # "none"
  /\ ~ tg_crashed
  /\ flow_run_process_map' =
       IF ready[f] = "pid" THEN [flow_run_process_map EXCEPT ![f] = "pid"]
       ELSE flow_run_process_map
  /\ submitting_flow_run_ids' = submitting_flow_run_ids \ {f}
  /\ tg_crashed' = (f \notin submitting_flow_run_ids)
  /\ sub' = [sub EXCEPT ![f] = "none"]
  /\ ready' = [ready EXCEPT ![f] = "none"]
  /\ UNCHANGED <<mode, limit, borrowers, cancelling_flow_run_ids, mon,
                 exec_pc, cancel_pc, named_result, ctasks, delayed,
                 limiter_error, spawns, kills>>

(***************************************************************************)
(* Runner: _submit_run_and_capture_errors, the task that starts and        *)
(* watches the child process of a flow run.                                *)
(***************************************************************************)
\* run_process has opened the process and reported it: task_status.started(pid)
MonitorProcessStarted(f) ==
  /\ mon[f] = "starting"
  /\ ~ tg_crashed
  /\ mon' = [mon EXCEPT ![f] = "running"]
  /\ ready' = [ready EXCEPT ![f] = "pid"]
  /\ UNCHANGED <<mode, limit, borrowers, submitting_flow_run_ids,
                 flow_run_process_map, cancelling_flow_run_ids, sub, exec_pc,
                 cancel_pc, named_result, ctasks, delayed, tg_crashed,
                 limiter_error, spawns, kills>>

\* run raised before the process was reported: task_status.started(exc),
\* then the Crashed proposal is awaited
MonitorStartFails(f) ==
  /\ mon[f] = "starting"
  /\ ~ tg_crashed
  /\ mon' = [mon EXCEPT ![f] = "start_failed"]
  /\ ready' = [ready EXCEPT ![f] = "exc"]
  /\ UNCHANGED <<mode, limit, borrowers, submitting_flow_run_ids,
                 flow_run_process_map, cancelling_flow_run_ids, sub, exec_pc,
                 cancel_pc, named_result, ctasks, delayed, tg_crashed,
                 limiter_error, spawns, kills>>

\* the finally block: release the slot, then pop the process map entry (the
\* pop is not reached when the release raises)
MonitorFinally(f) ==
  LET rel == Release(borrowers, f) IN
  /\ borrowers' = rel.held
  /\ limiter_error' = (limiter_error \/ rel.error)
  /\ tg_crashed' = rel.error
  /\ flow_run_process_map' =
       IF rel.error THEN flow_run_process_map
       ELSE [flow_run_process_map EXCEPT ![f] = "none"]

\* where the task goes after the finally block: `if result.status_code != 0`
\* it proposes Crashed, otherwise (and when the finally block raised) it
\* is over
AfterExit(f, code, raised) ==
  IF raised THEN "none"
  ELSE IF code # 0 THEN "report_crash" ELSE "none"

\* the child process has exited with some status: run returns
\* ProcessRunnerResult(status_code = process.returncode), the finally block
\* runs, and the task either returns the result (status 0), goes on to
\* propose Crashed, or is left by the exception of the finally block
MonitorProcessExit(f) ==
  /\ mon[f] = "running"
  /\ ~ tg_crashed
  /\ MonitorFinally(f)
  /\ \E code \in ExitCodes :
       LET raised == Release(borrowers, f).error
           next == AfterExit(f, code, raised) IN
       /\ mon' = [mon EXCEPT ![f] = next]
       /\ returncode' = [returncode EXCEPT ![f] =
                           IF next = "none" THEN 0 ELSE code]
       /\ exit_report' =
            IF next # "none" THEN NoExit
            ELSE ExitReport(f, code,
                            IF raised THEN NoResult
                            ELSE ProcessRunnerResult(code), FALSE)
  /\ UNCHANGED <<mode, limit, submitting_flow_run_ids,
                 cancelling_flow_run_ids, sub, ready, exec_pc, cancel_pc,
                 named_result, ctasks, delayed, spawns, kills>>

\* watching the process raised after it had been reported: the exception is
\* logged ("will not be marked as failed") and returned through the finally
\* block
MonitorWatchRaises(f) ==
  /\ mon[f] = "running"
  /\ ~ tg_crashed
  /\ MonitorFinally(f)
  /\ mon' = [mon EXCEPT ![f] = "none"]
  /\ UNCHANGED <<mode, limit, submitting_flow_run_ids,
                 cancelling_flow_run_ids, sub, ready, exec_pc, cancel_pc,
                 named_result, ctasks, delayed, spawns, kills>>

\* _propose_crashed_state("... exited with non-zero status code ...") has
\* returned (it swallows Abort and Exception), and the task returns result
MonitorCrashProposed(f) ==
  /\ mon[f] = "report_crash"
  /\ ~ tg_crashed
  /\ mon' = [mon EXCEPT ![f] = "none"]
  /\ returncode' = [returncode EXCEPT ![f] = 0]
  /\ exit_report' =
       ExitReport(f, returncode[f], ProcessRunnerResult(returncode[f]), TRUE)
  /\ UNCHANGED <<mode, limit, borrowers, submitting_flow_run_ids,
                 flow_run_process_map, cancelling_flow_run_ids, sub, ready,
                 exec_pc, cancel_pc, named_result, ctasks, delayed,
                 tg_crashed, limiter_error, spawns, kills>>

\* any other step: the report of the exit is dropped
ExitOver == exit_report' = NoExit

\* the Crashed proposal after a failed start has returned
MonitorStartFailedEnd(f) ==
  /\ mon[f] = "start_failed"
  /\ ~ tg_crashed
  /\ MonitorFinally(f)
  /\ mon' = [mon EXCEPT ![f] = "none"]
  /\ UNCHANGED <<mode, limit, submitting_flow_run_ids,
                 cancelling_flow_run_ids, sub, ready, exec_pc, cancel_pc,
                 named_result, ctasks, delayed, spawns, kills>>

(***************************************************************************)
(* Runner: execute_flow_run, the one-shot entry point.                     *)
(***************************************************************************)
\* execute_flow_run(f) up to read_flow_run
ExecBegin ==
  /\ mode = "execute"
  /\ exec_pc = "none"
  /\ \E f \in FlowRuns : submitting_flow_run_ids' = submitting_flow_run_ids \cup {f}
  /\ exec_pc' = "read"
  /\ UNCHANGED <<mode, limit, borrowers, flow_run_process_map,
                 cancelling_flow_run_ids, sub, mon, ready, cancel_pc,
                 named_result, ctasks, delayed, tg_crashed, limiter_error,
                 spawns, kills>>

\* read_flow_run returns and the monitor task is started, or it raises
ExecRead ==
  /\ exec_pc = "read"
  /\ \/ /\ exec_pc' = "start"
        /\ mon' = [f \in FlowRuns |->
                     IF f \in submitting_flow_run_ids THEN "starting" ELSE mon[f]]
     \/ /\ exec_pc' = "ended"
        /\ UNCHANGED mon
  /\ UNCHANGED <<mode, limit, borrowers, submitting_flow_run_ids,
                 flow_run_process_map, cancelling_flow_run_ids, sub, ready,
                 cancel_pc, named_result, ctasks, delayed, tg_crashed,
                 limiter_error, spawns, kills>>

\* the start has returned: whatever was given to task_status.started is
\* entered in the process map, and the cancellation loop is started
ExecMapped ==
  /\ exec_pc = "start"
  /\ ~ tg_crashed
  /\ \E f \in FlowRuns :
       /\ ready[f] # "none"
       /\ flow_run_process_map' = [flow_run_process_map EXCEPT ![f] = ready[f]]
       /\ ready' = [ready EXCEPT ![f] = "none"]
  /\ exec_pc' = "loop"
  /\ UNCHANGED <<mode, limit, borrowers, submitting_flow_run_ids,
                 cancelling_flow_run_ids, sub, mon, cancel_pc, named_result,
                 ctasks, delayed, tg_crashed, limiter_error, spawns, kills>>

\* the Runner is stopped from outside (an interrupt, a cancellation) while
\* its loops run: the loops are cancelled and `async with self` is left
ExecStopped ==
  /\ exec_pc = "loop"
  /\ exec_pc' = "ended"
  /\ cancel_pc' = "idle"
  /\ named_result' = {}
  /\ UNCHANGED <<mode, limit, borrowers, submitting_flow_run_ids,
                 flow_run_process_map, cancelling_flow_run_ids, sub, mon,
                 ready, ctasks, delayed, tg_crashed, limiter_error, spawns,
                 kills>>

\* self._scheduled_task_scopes: the scopes of the wrappers that sleep
scheduled_task_scopes == {f \in FlowRuns : delayed[f] > 0}

\* is_setup = False and scope.cancel() for every registered scope, up to the
\* await of the task group's __aexit__
CancelScopes(log) == Append(log, "cancel_scopes")

\* teardown from its start to its first await: with pause_on_shutdown and a
\* deployment to pause that is the first update_schedule, otherwise the
\* scopes are cancelled and the task group's __aexit__ is awaited
Teardown ==
  /\ exec_pc = "ended"
  /\ IF pause_on_shutdown /\ deployment_ids > 0
       THEN /\ exec_pc' = "pausing"
            /\ teardown_log' = Append(teardown_log, "update_schedule")
       ELSE /\ exec_pc' = "closing"
            /\ teardown_log' = CancelScopes(teardown_log)
  /\ UNCHANGED <<mode, limit, borrowers, submitting_flow_run_ids,
                 flow_run_process_map, cancelling_flow_run_ids, sub, mon,
                 ready, cancel_pc, named_result, ctasks, delayed, tg_crashed,
                 limiter_error, spawns, kills, pause_on_shutdown,
                 deployment_ids>>

\* update_schedule calls made so far
Updates(log) == Cardinality({i \in DOMAIN log : log[i] = "update_schedule"})

\* pause_schedules: update_schedule(deployment_id, active=False) returns and
\* the next one is called, or after the last one teardown goes on to cancel
\* the scopes; or it raises, which leaves teardown
TeardownPause ==
  /\ exec_pc = "pausing"
  /\ \/ /\ Updates(teardown_log) < deployment_ids
        /\ exec_pc' = "pausing"
        /\ teardown_log' = Append(teardown_log, "update_schedule")
     \/ /\ Updates(teardown_log) = deployment_ids
        /\ exec_pc' = "closing"
        /\ teardown_log' = CancelScopes(teardown_log)
     \/ /\ exec_pc' = "pause_failed"
        /\ UNCHANGED teardown_log
  /\ UNCHANGED <<mode, limit, borrowers, submitting_flow_run_ids,
                 flow_run_process_map, cancelling_flow_run_ids, sub, mon,
                 ready, cancel_pc, named_result, ctasks, delayed, tg_crashed,
                 limiter_error, spawns, kills, pause_on_shutdown,
                 deployment_ids>>

\* no task of the runs task group is left
ChildrenDone ==
  \A f \in FlowRuns :
    /\ sub[f] = "none"
    /\ mon[f] = "none"
    /\ ctasks[f] = NoCancelTasks
    /\ delayed[f] = 0

\* _runs_task_group.__aexit__ returns when every task has ended, then the
\* client is closed and the handles are set to None; when a task has
\* failed, __aexit__ raises and teardown is left
TeardownClose ==
  /\ exec_pc = "closing"
  /\ \/ /\ ~ tg_crashed
        /\ ChildrenDone
        /\ exec_pc' = "torn_down"
        /\ teardown_log' = teardown_log \o
             <<"close_task_group", "close_client", "null_handles">>
     \/ /\ tg_crashed
        /\ exec_pc' = "close_failed"
        /\ teardown_log' = Append(teardown_log, "close_task_group")
  /\ UNCHANGED <<mode, limit, borrowers, submitting_flow_run_ids,
                 flow_run_process_map, cancelling_flow_run_ids, sub, mon,
                 ready, cancel_pc, named_result, ctasks, delayed, tg_crashed,
                 limiter_error, spawns, kills, pause_on_shutdown,
                 deployment_ids>>

\* Runner.is_setup: set by setup, cleared by teardown after pause_schedules.
\* The Runner entered by Runner.start is not torn down in the model.
is_setup ==
  IF mode = "execute"
    THEN exec_pc \in {"read", "start", "loop", "ended", "pausing",
                      "pause_failed"}
    ELSE TRUE

(***************************************************************************)
(* Runner: the cancellation loop and cancel_run.                           *)
(***************************************************************************)
MapKeys == {f \in FlowRuns : flow_run_process_map[f] # "none"}

\* ids both queries are restricted to
Cancellable == MapKeys \ cancelling_flow_run_ids

\* what the two queries may answer: the flow runs the server holds as
\* cancelling and, read_flow_runs being cached, those it held as cancelling
\* until cancel_run marked them
Reported == server_cancelling \cup marked

\* a cancellation of f is requested from the server
ServerCancelRequested(f) ==
  /\ mode = "execute"
  /\ f \notin server_cancelling
  /\ server_cancelling' = server_cancelling \cup {f}
  /\ UNCHANGED <<mode, limit, borrowers, submitting_flow_run_ids,
                 flow_run_process_map, cancelling_flow_run_ids, sub, mon,
                 ready, exec_pc, cancel_pc, named_result, ctasks, delayed,
                 tg_crashed, limiter_error, spawns, kills, marked,
                 kill_failed>>

LiveCancelTasks(f) ==
  ctasks[f]["spawned"] + ctasks[f]["killing"] + ctasks[f]["marking"] + delayed[f]

\* check_for_cancelled_flow_runs up to the answer to the "named" query
CancelQueryNamed ==
  /\ exec_pc = "loop"
  /\ cancel_pc = "idle"
  /\ ~ tg_crashed
  /\ (MapKeys # {} \/ deployment_ids > 0)
  /\ named_result' \in SUBSET (Cancellable \cap Reported)
  /\ cancel_pc' = "typed"
  /\ UNCHANGED <<mode, limit, borrowers, submitting_flow_run_ids,
                 flow_run_process_map, cancelling_flow_run_ids, sub, mon,
                 ready, exec_pc, ctasks, delayed, tg_crashed, limiter_error,
                 spawns, kills>>

\* with an empty process map and no deployments the tick raises, which
\* ends the loop of execute_flow_run
CancelLoopStops ==
  /\ exec_pc = "loop"
  /\ cancel_pc = "idle"
  /\ MapKeys = {}
  /\ deployment_ids = 0
  /\ exec_pc' = "ended"
  /\ UNCHANGED <<mode, limit, borrowers, submitting_flow_run_ids,
                 flow_run_process_map, cancelling_flow_run_ids, sub, mon,
                 ready, cancel_pc, named_result, ctasks, delayed, tg_crashed,
                 limiter_error, spawns, kills>>

\* how many cancel_run tasks the loop over named + typed spawns for f
Spawned(named, typed, f) ==
  (IF f \in named THEN 1 ELSE 0) + (IF f \in typed THEN 1 ELSE 0)

\* the answer to the "typed" query, then the loop over both answers: each
\* flow run is added to the cancelling ids and a cancel_run is spawned
CancelQueryTyped ==
  /\ cancel_pc = "typed"
  /\ ~ tg_crashed
  /\ \E typed \in SUBSET (Cancellable \cap Reported) :
       /\ (Cancellable \cap server_cancelling) \subseteq (named_result \cup typed)
       /\ \A f \in FlowRuns :
            LiveCancelTasks(f) + Spawned(named_result, typed, f) <= MaxCancelTasks
       /\ cancelling_flow_run_ids' =
            cancelling_flow_run_ids \cup named_result \cup typed
       /\ ctasks' = [f \in FlowRuns |->
                       [ctasks[f] EXCEPT !["spawned"] =
                          @ + Spawned(named_result, typed, f)]]
       /\ spawns' = [f \in FlowRuns |->
                       IF f \in named_result \cup typed
                         THEN Spawned(named_result, typed, f) ELSE spawns[f]]
       /\ kills' = [f \in FlowRuns |->
                      IF f \in named_result \cup typed THEN 0 ELSE kills[f]]
  /\ named_result' = {}
  /\ cancel_pc' = "idle"
  /\ UNCHANGED <<mode, limit, borrowers, submitting_flow_run_ids,
                 flow_run_process_map, sub, mon, ready, exec_pc, delayed,
                 tg_crashed, limiter_error>>

MoveCancelTask(f, from, to) ==
  ctasks' = [ctasks EXCEPT ![f] = [@ EXCEPT ![from] = @ - 1, ![to] = @ + 1]]

EndCancelTask(f, from) ==
  ctasks' = [ctasks EXCEPT ![f] = [@ EXCEPT ![from] = @ - 1]]

CancelRunBeginMutAlwaysKills(f) ==
  /\ ctasks[f]["spawned"] > 0
  /\ ~ tg_crashed
  /\ MoveCancelTask(f, "spawned", "killing")
  /\ kills' = [kills EXCEPT ![f] = @ + 1]
  /\ UNCHANGED <<mode, limit, borrowers, submitting_flow_run_ids,
                 flow_run_process_map, cancelling_flow_run_ids, sub, mon,
                 ready, exec_pc, cancel_pc, named_result, delayed, tg_crashed,
                 limiter_error, spawns>>

\* cancel_run up to its first await: without a pid it goes on to mark the
\* flow run Cancelled, with one it calls kill_process
CancelRunBegin(f) ==
  /\ ctasks[f]["spawned"] > 0
  /\ ~ tg_crashed
  /\ IF flow_run_process_map[f] = "none"
       THEN MoveCancelTask(f, "spawned", "marking") /\ UNCHANGED kills
       ELSE /\ MoveCancelTask(f, "spawned", "killing")
            /\ kills' = [kills EXCEPT ![f] = @ + 1]
  /\ UNCHANGED <<mode, limit, borrowers, submitting_flow_run_ids,
                 flow_run_process_map, cancelling_flow_run_ids, sub, mon,
                 ready, exec_pc, cancel_pc, named_result, delayed, tg_crashed,
                 limiter_error, spawns>>

CancelKillEndsMutKeepsId(f) ==
  /\ ctasks[f]["killing"] > 0
  /\ ~ tg_crashed
  /\ \/ /\ MoveCancelTask(f, "killing", "marking")
        /\ UNCHANGED kill_failed
     \/ /\ EndCancelTask(f, "killing")
        /\ kill_failed' = kill_failed \cup {f}
  /\ UNCHANGED <<mode, limit, borrowers, submitting_flow_run_ids,
                 flow_run_process_map, cancelling_flow_run_ids, sub, mon,
                 ready, exec_pc, cancel_pc, named_result, delayed, tg_crashed,
                 limiter_error, spawns, kills, server_cancelling, marked>>

\* kill_process is over: it returned or raised InfrastructureNotFound (the
\* flow run is then marked Cancelled), or it raised something else (the id
\* is removed from the cancelling ids to be tried again)
CancelKillEnds(f) ==
  /\ ctasks[f]["killing"] > 0
  /\ ~ tg_crashed
  /\ \/ /\ MoveCancelTask(f, "killing", "marking")
        /\ UNCHANGED <<cancelling_flow_run_ids, tg_crashed, spawns, kills,
                       kill_failed>>
     \/ /\ EndCancelTask(f, "killing")
        /\ kill_failed' = kill_failed \cup {f}
        /\ cancelling_flow_run_ids' = cancelling_flow_run_ids \ {f}
        /\ tg_crashed' = (f \notin cancelling_flow_run_ids)
        /\ spawns' = [spawns EXCEPT ![f] = 0]
        /\ kills' = [kills EXCEPT ![f] = 0]
  /\ UNCHANGED <<mode, limit, borrowers, submitting_flow_run_ids,
                 flow_run_process_map, sub, mon, ready, exec_pc, cancel_pc,
                 named_result, delayed, limiter_error, server_cancelling,
                 marked>>

\* mutant of MarkedCancelled: the state is never set on the server
MarkedCancelledMutNoStateSet(f) ==
  UNCHANGED <<marked, server_cancelling>>

\* set_flow_run_state(flow_run.id, state, force=True) has returned: the
\* server holds the flow run as Cancelled
MarkedCancelled(f) ==
  /\ marked' = marked \cup {f}
  /\ server_cancelling' = server_cancelling \ {f}

\* _mark_flow_run_as_cancelled: set_flow_run_state raises, which leaves
\* cancel_run, or it returns and _schedule_task starts the removal of the id:
\* while the Runner is set up the wrapper sleeps first, otherwise it removes
\* the id before _schedule_task returns
CancelMark(f) ==
  /\ ctasks[f]["marking"] > 0
  /\ ~ tg_crashed
  /\ EndCancelTask(f, "marking")
  /\ \/ /\ tg_crashed' = TRUE
        /\ UNCHANGED <<delayed, cancelling_flow_run_ids, spawns, kills,
                       server_cancelling, marked>>
     \/ /\ is_setup
        /\ MarkedCancelled(f)
        /\ delayed' = [delayed EXCEPT ![f] = @ + 1]
        /\ UNCHANGED <<tg_crashed, cancelling_flow_run_ids, spawns, kills>>
     \/ /\ ~ is_setup
        /\ MarkedCancelled(f)
        /\ cancelling_flow_run_ids' = cancelling_flow_run_ids \ {f}
        /\ tg_crashed' = (f \notin cancelling_flow_run_ids)
        /\ spawns' = [spawns EXCEPT ![f] = 0]
        /\ kills' = [kills EXCEPT ![f] = 0]
        /\ UNCHANGED delayed
  /\ UNCHANGED <<mode, limit, borrowers, submitting_flow_run_ids,
                 flow_run_process_map, sub, mon, ready, exec_pc, cancel_pc,
                 named_result, limiter_error, kill_failed>>

\* the task scheduled by _schedule_task fires:
\* self._cancelling_flow_run_ids.remove(flow_run.id)
DelayedRemove(f) ==
  /\ delayed[f] > 0
  /\ ~ tg_crashed
  /\ delayed' = [delayed EXCEPT ![f] = @ - 1]
  /\ cancelling_flow_run_ids' = cancelling_flow_run_ids \ {f}
  /\ tg_crashed' = (f \notin cancelling_flow_run_ids)
  /\ spawns' = [spawns EXCEPT ![f] = 0]
  /\ kills' = [kills EXCEPT ![f] = 0]
  /\ UNCHANGED <<mode, limit, borrowers, submitting_flow_run_ids,
                 flow_run_process_map, sub, mon, ready, exec_pc, cancel_pc,
                 named_result, ctasks, limiter_error>>

\* A Runner is entered through start, whose submit loop is modelled with
\* the tasks it spawns, or through execute_flow_run, modelled with the
\* cancellation loop it starts.  To the submit loop a cancellation is a
\* process exit, which MonitorProcessExit takes at any time.
\* the arguments of the constructor.  Runner.start is not torn down in the
\* model, it keeps the defaults that only teardown reads; without a
\* deployment pause_on_shutdown changes nothing and keeps its default
RunnerInit ==
  /\ mode \in {"start", "execute"}
  /\ limit \in {NoLimit} \cup (1..MaxLimit)
  /\ pause_on_shutdown \in BOOLEAN
  /\ deployment_ids \in 0..MaxDeployments
  /\ mode = "start" => deployment_ids = 0
  /\ deployment_ids = 0 => pause_on_shutdown
  /\ teardown_log = <<>>
  /\ RunnerFresh
  /\ EngineFresh
  /\ PollFresh
  /\ CtorFresh
  /\ UnitFresh

RunnerNext ==
  \/ (SubmitTick /\ ExitOver /\ UNCHANGED <<engineVars, otherVars, cancelHist, exitHist>>)
  \/ \E f \in FlowRuns : SubmitCheck(f) /\ TickOver /\ ExitOver /\ UNCHANGED <<engineVars, otherVars, cancelHist, exitHist>>
  \/ \E f \in FlowRuns : SubmitPropose(f) /\ TickOver /\ ExitOver /\ UNCHANGED <<engineVars, otherVars, cancelHist, exitHist>>
  \/ \E f \in FlowRuns : SubmitResume(f) /\ TickOver /\ ExitOver /\ UNCHANGED <<engineVars, otherVars, cancelHist, exitHist>>
  \/ \E f \in FlowRuns : MonitorProcessStarted(f) /\ TickOver /\ ExitOver /\ UNCHANGED <<engineVars, otherVars, cancelHist, exitHist>>
  \/ \E f \in FlowRuns : MonitorStartFails(f) /\ TickOver /\ ExitOver /\ UNCHANGED <<engineVars, otherVars, cancelHist, exitHist>>
  \/ \E f \in FlowRuns : MonitorProcessExit(f) /\ TickOver /\ UNCHANGED <<engineVars, otherVars, cancelHist>>
  \/ \E f \in FlowRuns : MonitorWatchRaises(f) /\ TickOver /\ ExitOver /\ UNCHANGED <<engineVars, otherVars, cancelHist, exitHist>>
  \/ \E f \in FlowRuns : MonitorCrashProposed(f) /\ TickOver /\ UNCHANGED <<engineVars, otherVars, cancelHist>>
  \/ \E f \in FlowRuns : MonitorStartFailedEnd(f) /\ TickOver /\ ExitOver /\ UNCHANGED <<engineVars, otherVars, cancelHist, exitHist>>
  \/ (ExecBegin /\ TickOver /\ ExitOver /\ UNCHANGED <<engineVars, otherVars, cancelHist, exitHist>>)
  \/ (ExecRead /\ TickOver /\ ExitOver /\ UNCHANGED <<engineVars, otherVars, cancelHist, exitHist>>)
  \/ (ExecMapped /\ TickOver /\ ExitOver /\ UNCHANGED <<engineVars, otherVars, cancelHist, exitHist>>)
  \/ \E f \in FlowRuns : ServerCancelRequested(f) /\ TickOver /\ ExitOver /\ UNCHANGED <<engineVars, otherVars, exitHist>>
  \/ (CancelQueryNamed /\ TickOver /\ ExitOver /\ UNCHANGED <<engineVars, otherVars, cancelHist, exitHist>>)
  \/ (CancelLoopStops /\ TickOver /\ ExitOver /\ UNCHANGED <<engineVars, otherVars, cancelHist, exitHist>>)
  \/ (ExecStopped /\ TickOver /\ ExitOver /\ UNCHANGED <<engineVars, otherVars, cancelHist, exitHist>>)
  \/ (Teardown /\ TickOver /\ ExitOver /\ UNCHANGED <<engineVars, pollVars, ctorVars, unitVars, cancelHist, exitHist>>)
  \/ (TeardownPause /\ TickOver /\ ExitOver /\ UNCHANGED <<engineVars, pollVars, ctorVars, unitVars, cancelHist, exitHist>>)
  \/ (TeardownClose /\ TickOver /\ ExitOver /\ UNCHANGED <<engineVars, pollVars, ctorVars, unitVars, cancelHist, exitHist>>)
  \/ (CancelQueryTyped /\ TickOver /\ ExitOver /\ UNCHANGED <<engineVars, otherVars, cancelHist, exitHist>>)
  \/ \E f \in FlowRuns : CancelRunBegin(f) /\ TickOver /\ ExitOver /\ UNCHANGED <<engineVars, otherVars, cancelHist, exitHist>>
  \/ \E f \in FlowRuns : CancelKillEnds(f) /\ TickOver /\ ExitOver /\ UNCHANGED <<engineVars, otherVars, exitHist>>
  \/ \E f \in FlowRuns : CancelMark(f) /\ TickOver /\ ExitOver /\ UNCHANGED <<engineVars, otherVars, exitHist>>
  \/ \E f \in FlowRuns : DelayedRemove(f) /\ TickOver /\ ExitOver /\ UNCHANGED <<engineVars, otherVars, cancelHist, exitHist>>

SpecRunner == RunnerInit /\ [][RunnerNext]_vars

\* a step of the cancellation loop
CancelLoopStep ==
  \/ (CancelQueryNamed /\ TickOver /\ ExitOver /\ UNCHANGED <<engineVars, otherVars, cancelHist, exitHist>>)
  \/ (CancelQueryTyped /\ TickOver /\ ExitOver /\ UNCHANGED <<engineVars, otherVars, cancelHist, exitHist>>)

\* a step of a cancel_run task of f
CancelRunStep(f) ==
  \/ (CancelRunBegin(f) /\ TickOver /\ ExitOver /\ UNCHANGED <<engineVars, otherVars, cancelHist, exitHist>>)
  \/ (CancelKillEnds(f) /\ TickOver /\ ExitOver /\ UNCHANGED <<engineVars, otherVars, exitHist>>)
  \/ (CancelMark(f) /\ TickOver /\ ExitOver /\ UNCHANGED <<engineVars, otherVars, exitHist>>)

\* the event loop runs every task that is ready: the cancellation loop
\* ticks, and a spawned cancel_run goes on when its await is over
SpecRunnerFair ==
  /\ SpecRunner
  /\ WF_vars(CancelLoopStep)
  /\ \A f \in FlowRuns : WF_vars(CancelRunStep(f))

(***************************************************************************)
(* Runner: the healthcheck, is_runner_still_polling, against the clock and *)
(* the polls of get_and_submit_flow_runs.                                  *)
(***************************************************************************)
\* Duration.in_seconds() of pendulum: the whole seconds of a duration
in_seconds(ticks) == ticks \div TicksPerSecond

\* is_runner_still_polling(query_interval_seconds) at time t
is_runner_still_polling(q, t) ==
  LET threshold_seconds == q * 30
      seconds_since_last_poll == in_seconds(t - last_polled_time)
  IN seconds_since_last_poll <= threshold_seconds

\* time passes
ClockTick ==
  /\ now < MaxNow
  /\ now' = now + 1
  /\ UNCHANGED <<last_polled_time, health>>

\* get_and_submit_flow_runs: the query has returned,
\* self._last_polled_time = pendulum.now("utc")
Polled ==
  /\ last_polled_time' = now
  /\ UNCHANGED <<now, health>>

\* the webserver's healthcheck handler calls is_runner_still_polling
Healthcheck ==
  /\ \E q \in 1..MaxQueryInterval :
       health' = [asked |-> TRUE, q |-> q,
                  elapsed |-> now - last_polled_time,
                  answer |-> is_runner_still_polling(q, now)]
  /\ UNCHANGED <<now, last_polled_time>>

PollInit ==
  /\ mode = "start"
  /\ limit = NoLimit
  /\ RunnerFresh
  /\ EngineFresh
  /\ PollFresh
  /\ CtorFresh
  /\ UnitFresh
  /\ DownFresh

PollNext ==
  \/ (ClockTick /\ UNCHANGED <<engineVars, runnerVars, downVars, ctorVars, unitVars>>)
  \/ (Polled /\ UNCHANGED <<engineVars, runnerVars, downVars, ctorVars, unitVars>>)
  \/ (Healthcheck /\ UNCHANGED <<engineVars, runnerVars, downVars, ctorVars, unitVars>>)

SpecPolling == PollInit /\ [][PollNext]_vars

(***************************************************************************)
(* Runner: its constructor and the name it is given.                       *)
(***************************************************************************)
\* the characters of a name: a letter and the two the constructor refuses
Chars == {"a", "/", "%"}

\* the strings of at most n characters
Strings(n) == UNION {[1..k -> Chars] : k \in 0..n}

\* name: None or a string
NameArgs == {NoName} \cup {[given |-> TRUE, value |-> v] : v \in Strings(MaxNameLen)}

\* ch in name
Contains(name, ch) == \E i \in DOMAIN name : name[i] = ch

\* the truth value of the argument: None and "" are false
Truthy(arg) == arg.given /\ arg.value # <<>>

\* f"{self.__class__.__name__} {uuid4()}": letters, digits, hyphens and one
\* space
GeneratedName == <<"a", " ", "a">>

\* `if name and ("/" in name or "%" in name)`
NameRefused(arg) ==
  Truthy(arg) /\ (Contains(arg.value, "/") \/ Contains(arg.value, "%"))

\* self.name = name or f"{self.__class__.__name__} {uuid4()}"
NameStored(arg) == IF Truthy(arg) THEN arg.value ELSE GeneratedName

\* Runner(name = arg): ValueError, or a Runner with self.name set
Construct ==
  /\ ctor = "none"
  /\ \E arg \in NameArgs :
       /\ name_arg' = arg
       /\ IF NameRefused(arg)
            THEN ctor' = "ValueError" /\ runner_name' = <<>>
            ELSE ctor' = "created" /\ runner_name' = NameStored(arg)

\* the Runner, or the exception, is dropped
Discard ==
  /\ ctor # "none"
  /\ name_arg' = NoName
  /\ ctor' = "none"
  /\ runner_name' = <<>>

CtorInit ==
  /\ mode = "start"
  /\ limit = NoLimit
  /\ RunnerFresh
  /\ EngineFresh
  /\ PollFresh
  /\ DownFresh
  /\ CtorFresh
  /\ UnitFresh

CtorNext ==
  \/ (Construct /\ UNCHANGED <<engineVars, runnerVars, pollVars, downVars, unitVars>>)
  \/ (Discard /\ UNCHANGED <<engineVars, runnerVars, pollVars, downVars, unitVars>>)

SpecConstruct == CtorInit /\ [][CtorNext]_vars

(***************************************************************************)
(* Runner: kill_process for one pid.  The child process may exit at any    *)
(* time; its pid may be stale from the start.                              *)
(***************************************************************************)
TenthsPerSecond == 10

\* os.kill(pid, sig) for the process the pid stands for
os_kill(p) ==
  CASE p = "alive" -> "sent"
    [] p = "gone" -> "ProcessLookupError"
    [] OTHER -> "PermissionError"

\* check_interval = max(grace_seconds / 10, 1), in tenths of a second
check_interval(grace) ==
  IF grace > TenthsPerSecond THEN grace ELSE TenthsPerSecond

\* the deadline of anyio.move_on_after(grace_seconds), in tenths of a second
Deadline(grace) == grace * TenthsPerSecond

OsCall(sig) == [sig |-> sig, outcome |-> os_kill(proc)]

KillEnds(how) ==
  /\ kill_pc' = "done"
  /\ kill_result' = how

\* kill_process up to its first await: on Windows os.kill with
\* CTRL_BREAK_EVENT, elsewhere os.kill with SIGTERM.  ProcessLookupError
\* (on Windows any OSError) becomes InfrastructureNotFound
KillBegin ==
  /\ kill_pc = "begin"
  /\ IF platform = "win32"
       THEN /\ os_calls' = Append(os_calls, OsCall("CTRL_BREAK_EVENT"))
            /\ KillEnds(IF os_kill(proc) = "sent" THEN "returned"
                        ELSE "InfrastructureNotFound")
       ELSE /\ os_calls' = Append(os_calls, OsCall("SIGTERM"))
            /\ CASE os_kill(proc) = "sent" ->
                      kill_pc' = "sleep" /\ UNCHANGED kill_result
                 [] os_kill(proc) = "ProcessLookupError" ->
                      KillEnds("InfrastructureNotFound")
                 [] OTHER -> KillEnds(os_kill(proc))
  /\ UNCHANGED <<platform, grace_seconds, proc, elapsed>>

\* await anyio.sleep(check_interval) inside move_on_after: the sleep ends
\* and the loop goes on to its probe, or the deadline cancels the block;
\* when both fall on the same instant either may come first
KillSleep ==
  /\ kill_pc = "sleep"
  /\ LET wake == elapsed + check_interval(grace_seconds)
         deadline == Deadline(grace_seconds)
     IN \/ /\ wake <= deadline
           /\ elapsed' = wake
           /\ kill_pc' = "probe"
        \/ /\ wake >= deadline
           /\ elapsed' = deadline
           /\ kill_pc' = "sigkill"
  /\ UNCHANGED <<platform, grace_seconds, proc, os_calls, kill_result>>

KillProbeMutIgnoresGone ==
  /\ kill_pc = "probe"
  /\ os_calls' = Append(os_calls, OsCall("0"))
  /\ kill_pc' = "sleep"
  /\ UNCHANGED <<platform, grace_seconds, proc, elapsed, kill_result>>

\* the liveness probe os.kill(pid, 0): ProcessLookupError is the early
\* return, any other error leaves kill_process
KillProbe ==
  /\ kill_pc = "probe"
  /\ os_calls' = Append(os_calls, OsCall("0"))
  /\ CASE os_kill(proc) = "sent" -> kill_pc' = "sleep" /\ UNCHANGED kill_result
       [] os_kill(proc) = "ProcessLookupError" -> KillEnds("returned")
       [] OTHER -> KillEnds(os_kill(proc))
  /\ UNCHANGED <<platform, grace_seconds, proc, elapsed>>

\* after the grace period: os.kill with SIGKILL, OSError is swallowed
KillSigkill ==
  /\ kill_pc = "sigkill"
  /\ os_calls' = Append(os_calls, OsCall("SIGKILL"))
  /\ KillEnds("returned")
  /\ UNCHANGED <<platform, grace_seconds, proc, elapsed>>

\* the child process exits
ProcessExits ==
  /\ proc = "alive"
  /\ proc' = "gone"
  /\ UNCHANGED <<platform, grace_seconds, kill_pc, elapsed, os_calls,
                 kill_result>>

\* kill_process(pid, grace_seconds) is called
KillInit ==
  /\ mode = "start"
  /\ limit = NoLimit
  /\ RunnerFresh
  /\ EngineFresh
  /\ PollFresh
  /\ DownFresh
  /\ CtorFresh
  /\ pending_calls = [f \in FlowRuns |-> NoCall]
  /\ env_call = NoEnvCall
  /\ platform \in {"linux", "darwin", "win32"}
  /\ grace_seconds \in 0..MaxGrace
  /\ proc \in {"alive", "gone", "foreign"}
  /\ kill_pc = "begin"
  /\ elapsed = 0
  /\ os_calls = <<>>
  /\ kill_result = "none"

KillNext ==
  \/ (KillBegin /\ UNCHANGED <<engineVars, runnerVars, pollVars, downVars, ctorVars, pending_calls, env_call>>)
  \/ (KillSleep /\ UNCHANGED <<engineVars, runnerVars, pollVars, downVars, ctorVars, pending_calls, env_call>>)
  \/ (KillProbe /\ UNCHANGED <<engineVars, runnerVars, pollVars, downVars, ctorVars, pending_calls, env_call>>)
  \/ (KillSigkill /\ UNCHANGED <<engineVars, runnerVars, pollVars, downVars, ctorVars, pending_calls, env_call>>)
  \/ (ProcessExits /\ UNCHANGED <<engineVars, runnerVars, pollVars, downVars, ctorVars, pending_calls, env_call>>)

SpecKill == KillInit /\ [][KillNext]_vars

(***************************************************************************)
(* Runner: _propose_pending_state called on its own, for any answer.       *)
(***************************************************************************)
\* one call of _propose_pending_state for flow run f
ProposePending(f) ==
  \E a \in PendingAnswers :
    pending_calls' =
      [pending_calls EXCEPT ![f] = [answer |-> a,
                                    result |-> propose_pending_state(a)]]

ProposeInit ==
  /\ mode = "start"
  /\ limit = NoLimit
  /\ RunnerFresh
  /\ EngineFresh
  /\ PollFresh
  /\ DownFresh
  /\ CtorFresh
  /\ UnitFresh

ProposeNext ==
  \E f \in FlowRuns :
    ProposePending(f) /\ UNCHANGED <<engineVars, runnerVars, pollVars, downVars, ctorVars, killVars, env_call>>

SpecPropose == ProposeInit /\ [][ProposeNext]_vars

(***************************************************************************)
(* Runner: prepare_environment.  An environment is a function of the       *)
(* variable names, Unset for a name it does not define.                    *)
(***************************************************************************)
EnvNames == {"PREFECT__FLOW_RUN_ID", "PREFECT_API_URL", "PATH"}

\* no value
Unset == <<>>

\* flow_run.id.hex
Hex(f) == <<"hex", f>>

\* the values of variables: the hex ids of the flow runs, and another
EnvValues == {Hex(f) : f \in FlowRuns} \cup {<<"value">>}

\* os.environ: any variables
Environs == [EnvNames -> EnvValues \cup {Unset}]

\* what get_current_settings().to_environment_variables(exclude_unset=True)
\* may return: the settings that are set, each as a variable
\* PREFECT_<NAME>, none of them PREFECT__FLOW_RUN_ID
SettingsVariables ==
  {e \in Environs : e["PREFECT__FLOW_RUN_ID"] = Unset /\ e["PATH"] = Unset}

\* dict.update: the entries of other replace those of env
Update(env, other) ==
  [k \in EnvNames |-> IF other[k] # Unset THEN other[k] ELSE env[k]]

\* {"PREFECT__FLOW_RUN_ID": flow_run.id.hex}
FlowRunIdEntry(f) ==
  [k \in EnvNames |-> IF k = "PREFECT__FLOW_RUN_ID" THEN Hex(f) ELSE Unset]

prepare_environment(f, settings, environ) ==
  Update(Update(settings, FlowRunIdEntry(f)), environ)

\* prepare_environment(flow_run) is called
PrepareEnvironment ==
  \E f \in FlowRuns, settings \in SettingsVariables, environ \in Environs :
    env_call' = [called |-> TRUE, flow_run |-> f, settings |-> settings,
                 environ |-> environ,
                 env |-> prepare_environment(f, settings, environ)]

EnvInit ==
  /\ mode = "start"
  /\ limit = NoLimit
  /\ RunnerFresh
  /\ EngineFresh
  /\ PollFresh
  /\ DownFresh
  /\ CtorFresh
  /\ UnitFresh

EnvNext ==
  PrepareEnvironment /\ UNCHANGED <<engineVars, runnerVars, pollVars, downVars, ctorVars, killVars, pending_calls>>

SpecEnvironment == EnvInit /\ [][EnvNext]_vars

(***************************************************************************)
(* Runner properties.                                                      *)
(***************************************************************************)
\* the submission of f by the submit loop is over: _submit_run has returned
\* and no monitoring task of f is left
SubmissionEnded(f) == sub[f] = "none" /\ mon[f] = "none"

\* C2: a slot acquired for a flow run in _submit_scheduled_flow_runs is
\* released on every path by which the submission ends: once the submission
\* of a flow run has ended, the limiter holds no slot for it.  (Violated:
\* the path of a rejected storage precheck returns without releasing.)
C2_SlotReleasedWhenEnded ==
  mode = "start" =>
    \A f \in FlowRuns : SubmissionEnded(f) => f \notin borrowers

\* f is being submitted (_submit_run has not yet asked for a process) or its
\* monitoring task is before its finally block: its child process is being
\* started or is live
InFlight(f) ==
  sub[f] \in {"check", "propose"} \/ mon[f] \notin {"none", "report_crash"}

C6_SubmittingDisjointFromMap ==
  submitting_flow_run_ids \cap MapKeys = {}

\* C7: a flow-run id enters flow_run_process_map only if it has been
\* recorded in submitting_flow_run_ids by the same submission: in every step
\* that gives f an entry, f is in the submitting ids before the step.
C7_MappedOnlyIfSubmitting ==
  [][\A f \in FlowRuns :
       (flow_run_process_map[f] = "none" /\ flow_run_process_map'[f] # "none")
         => f \in submitting_flow_run_ids]_vars

\* a submission of the submit loop has gone through: the process of flow
\* run 1 is in the map and its id has left the submitting ids
C7_Witness ==
  /\ mode = "start"
  /\ flow_run_process_map[1] = "pid"
  /\ mon[1] = "running"
  /\ sub[1] = "none"
  /\ 1 \notin submitting_flow_run_ids

\* C8: the process map holds the pid of a flow run only while its process
\* is watched: once the process has terminated and the monitoring task has
\* finished there is no entry, whichever of the submitting task and the
\* monitoring task runs first.  (Violated: a monitoring task that finishes
\* first pops nothing, and the submitting task then writes an entry that
\* nothing removes.)
C8_EntryOnlyWhileProcessLive ==
  \A f \in FlowRuns :
    flow_run_process_map[f] = "pid" => mon[f] = "running"

\* C9: while a flow-run id is in cancelling_flow_run_ids, one cancel_run is
\* spawned for it and kill_process is invoked for it at most once.
\* (Violated: a flow run in the answers to both queries of one tick gets
\* two cancel_run tasks.)
C9_CancelAtMostOnce ==
  \A f \in cancelling_flow_run_ids : spawns[f] <= 1 /\ kills[f] <= 1

C21_FailedKillIsRetried ==
  [][\A f \in FlowRuns :
       /\ (/\ ctasks'[f]["killing"] < ctasks[f]["killing"]
           /\ ctasks'[f]["marking"] = ctasks[f]["marking"]) =>
            /\ f \notin cancelling_flow_run_ids'
            /\ f \in kill_failed'
            /\ marked' = marked
            /\ delayed' = delayed
       /\ (/\ cancel_pc = "typed" /\ cancel_pc' = "idle"
           /\ exec_pc' = exec_pc
           /\ f \in server_cancelling
           /\ flow_run_process_map[f] # "none"
           /\ f \notin cancelling_flow_run_ids) =>
            /\ f \in cancelling_flow_run_ids'
            /\ ctasks'[f]["spawned"] > ctasks[f]["spawned"] ]_vars

\* C21: kill_process failed for flow run 1, the id was removed, and a later
\* tick has spawned a cancel_run that is calling kill_process again
C21_Witness ==
  /\ 1 \in kill_failed
  /\ 1 \in cancelling_flow_run_ids
  /\ spawns[1] = 1
  /\ kills[1] = 1
  /\ ctasks[1] = [spawned |-> 0, killing |-> 1, marking |-> 0]
  /\ flow_run_process_map[1] = "pid"

\* a failure C22 sets aside: kill_process raised, or an exception escaped
\* into the runs task group (a failed API call of cancel_run among them)
CancelFailure == kill_failed # {} \/ tg_crashed

C23_CrashedIffNonZeroExit ==
  exit_report.exited =>
    /\ exit_report.crash_proposed <=> (exit_report.returncode # 0)
    /\ exit_report.result = ProcessRunnerResult(exit_report.returncode)
    /\ Bool(exit_report.result) <=> (exit_report.returncode = 0)

\* C24: within one submit tick every flow run submitted is a candidate that
\* was not already submitting and is scheduled no later than every
\* candidate that was neither submitted nor already submitting (so none
\* after the first one left out is submitted), and with a limit each of
\* them holds a slot.
C24_SubmittedInScheduleOrder ==
  LET left == tick.cands \ (tick.spawned \cup tick.already) IN
  /\ tick.spawned \subseteq tick.cands \ tick.already
  /\ \A s \in tick.spawned : \A c \in left :
       next_scheduled_start_time(s) <= next_scheduled_start_time(c)
  /\ limit # NoLimit => tick.spawned \subseteq borrowers

\* with limit 1 and two candidates the tick has submitted the earlier one
\* and stopped at the later one
C24_Witness ==
  /\ limit = 1
  /\ tick.cands = {1, 2}
  /\ tick.already = {}
  /\ tick.spawned = {1}
  /\ sub[1] = "check" /\ sub[2] = "none"

\* C25: no failure arising inside a task spawned on the Runner's task group
\* propagates out of that task group.  (Violated: an API failure in
\* _check_flow_run that is neither ValueError nor ObjectNotFound, and one
\* of set_flow_run_state in cancel_run, are not caught.)
C25_NoFailureEscapesTaskGroup == ~ tg_crashed

\* C26: is_runner_still_polling(q) returns false if and only if the time
\* elapsed since last_polled_time is strictly greater than 30 * q seconds.
\* (Violated: in_seconds drops the fraction of a second, so an elapsed time
\* of 30 * q seconds and a half still answers true.)
C26_FalseIffElapsedOverThreshold ==
  health.asked =>
    ((~ health.answer) <=> (health.elapsed > 30 * health.q * TicksPerSecond))

\* teardown has run: it has returned or has been left by an exception
TeardownOver == exec_pc \in {"torn_down", "pause_failed", "close_failed"}

\* the steps of teardown_log that are step
Steps(step) == {i \in DOMAIN teardown_log : teardown_log[i] = step}

\* C27: after teardown has run, every scope registered in
\* scheduled_task_scopes has been cancelled, on every teardown path, the
\* one where pausing the deployment schedules fails included.  (Violated:
\* pause_schedules runs first, and when it raises no scope is cancelled.)
C27_ScopesCancelledAfterTeardown ==
  (TeardownOver /\ scheduled_task_scopes # {}) => Steps("cancel_scopes") # {}

\* C28: teardown cancels the scheduled-task scopes, then (only with
\* pause_on_shutdown) calls update_schedule once per managed deployment,
\* then closes the task group, then the client, then nulls the handles;
\* nothing is called on the client after it is closed.  (Violated: the
\* code calls update_schedule before it cancels the scopes.)
C28_TeardownOrder ==
  /\ \A i \in Steps("update_schedule") :
       /\ pause_on_shutdown
       /\ \E j \in Steps("cancel_scopes") : j < i
       /\ \A j \in Steps("close_task_group") \cup Steps("close_client") : i < j
  /\ Cardinality(Steps("update_schedule")) <= deployment_ids
  /\ exec_pc = "torn_down" =>
       /\ pause_on_shutdown =>
            Cardinality(Steps("update_schedule")) = deployment_ids
       /\ \E i \in Steps("cancel_scopes") :
            \E j \in Steps("close_task_group") :
              \E k \in Steps("close_client") :
                \E l \in Steps("null_handles") : i < j /\ j < k /\ k < l

\* a string that is non-empty and has neither '/' nor '%'
ValidName(name) ==
  name # <<>> /\ ~ Contains(name, "/") /\ ~ Contains(name, "%")

\* C29: the constructor accepts a name only if it is a non-empty string with
\* neither '/' nor '%'; a name with either raises ValueError; an omitted
\* name yields a generated name that is non-empty and free of both; an
\* accepted name is stored unchanged.  (Violated: the empty string is
\* accepted and replaced by a generated name.)
C29_NameAcceptedOnlyIfValid ==
  /\ (ctor = "created" /\ name_arg.given) =>
       (ValidName(name_arg.value) /\ runner_name = name_arg.value)
  /\ (ctor # "none" /\ name_arg.given
        /\ (Contains(name_arg.value, "/") \/ Contains(name_arg.value, "%"))) =>
       ctor = "ValueError"
  /\ (ctor # "none" /\ ~ name_arg.given) =>
       (ctor = "created" /\ ValidName(runner_name))

\* the with block of start is active
InStartBlock == pc \notin {"new", "done"}

\* C30: the engine's API client is available exactly while the start block
\* is active: before start and after the block has exited, by any path,
\* accessing it raises RuntimeError, inside the block it returns the
\* client.  (Violated: when create_run raises, the finally clause of start
\* raises before it resets _is_started and _client.)
C30_ClientExactlyInStartBlock ==
  IF InStartBlock THEN client = "client" ELSE client = "RuntimeError"

\* a step of begin_run that has proposed Running and got a state back
RunningAnswered ==
  /\ pc \in {"begin", "poll"}
  /\ nprop' # nprop
  /\ last_prop'.state = "Running"
  /\ exit_kind' = "running"

\* C31: after begin_run has proposed Running, while the state the server
\* returns is Pending or Paused the engine proposes the same Running state
\* again and does nothing else; begin_run returns only when a returned state
\* is neither Pending nor Paused, task.fn is not called before that, and
\* every proposal made outside begin_run answers one event (the end of a
\* call of task.fn or of a hook): nothing else proposes a state in a loop.
C31_PollsOnlyInBeginRun ==
  [][ /\ pc = "poll" =>
           /\ nprop' = nprop + 1
           /\ last_prop' = [state |-> "Running", force |-> FALSE]
           /\ last_prop = last_prop'
           /\ fn_calls' = fn_calls
           /\ retries' = retries
           /\ hooks_called' = hooks_called
      /\ RunningAnswered =>
           /\ pc' = "poll" <=>
                (is_pending(task_run_state') \/ is_paused(task_run_state'))
           /\ pc' = "loop" <=>
                ~ (is_pending(task_run_state') \/ is_paused(task_run_state'))
      /\ fn_calls' # fn_calls =>
           /\ pc = "loop"
           /\ ~ (is_pending(task_run_state) \/ is_paused(task_run_state))
      /\ (nprop' # nprop /\ pc \notin {"begin", "poll"}) =>
           \/ fn_outcome # "none" /\ fn_outcome' = "none"
           \/ Len(hooks_called') = Len(hooks_called) + 1 ]_vars

\* begin_run was answered Pending or Paused, polled, was let through and
\* task.fn has been called
C31_Witness ==
  /\ polls >= 1
  /\ fn_calls >= 1
  /\ nprop >= 2
  /\ supplied = "NoRun"

\* C32: after a flow run has been marked Cancelled its id stays in
\* cancelling_flow_run_ids until the delayed task scheduled for it fires,
\* and that task removes the id once and never tries to remove an id that
\* is no longer in the set: while a delayed removal is pending for a flow
\* run, its id is in the set.  (Violated: the two cancel_run tasks of one
\* tick both mark the flow run and schedule a removal each; the first
\* removal leaves the second one an id that is gone.)
C32_IdKeptUntilDelayedRemoval ==
  \A f \in FlowRuns : delayed[f] > 0 => f \in cancelling_flow_run_ids

\* the calls of os.kill that were liveness probes
Probes == {i \in DOMAIN os_calls : os_calls[i].sig = "0"}

\* C33: off Windows kill_process sends SIGTERM first; when the process does
\* not exist then, it raises InfrastructureNotFound and sends nothing else;
\* SIGKILL is sent only after SIGTERM and only if every liveness probe of
\* the grace period found the process alive; and as soon as a probe finds
\* the process gone kill_process returns, without SIGKILL.
C33_TermThenKillOnlyIfAlive ==
  platform # "win32" =>
    /\ os_calls # <<>> => os_calls[1].sig = "SIGTERM"
    /\ \A i \in DOMAIN os_calls : os_calls[i].sig = "SIGTERM" => i = 1
    /\ (os_calls # <<>> /\ os_calls[1].outcome = "ProcessLookupError") =>
         /\ Len(os_calls) = 1
         /\ kill_pc = "done"
         /\ kill_result = "InfrastructureNotFound"
    /\ \A i \in DOMAIN os_calls :
         os_calls[i].sig = "SIGKILL" =>
           /\ i = Len(os_calls)
           /\ os_calls[1] = [sig |-> "SIGTERM", outcome |-> "sent"]
           /\ \A j \in Probes : os_calls[j].outcome = "sent"
    /\ \A j \in Probes :
         os_calls[j].outcome = "ProcessLookupError" =>
           /\ j = Len(os_calls)
           /\ kill_pc = "done"
           /\ kill_result = "returned"

\* SIGTERM was delivered, the process was probed alive more than once
\* during the grace period and SIGKILL was sent after it
C33_Witness ==
  /\ platform = "linux"
  /\ kill_pc = "done"
  /\ Len(os_calls) >= 4
  /\ os_calls[Len(os_calls)].sig = "SIGKILL"
  /\ Cardinality(Probes) >= 2

\* C34: _propose_pending_state returns true if and only if the server's
\* answer to the Pending proposal is a Pending state; an Abort signal, any
\* other exception of the proposal and a returned state that is not Pending
\* all make it return false; it never raises.  (Violated: a Pause signal of
\* propose_state is not caught.)
C34_TrueIffPendingNeverRaises ==
  \A f \in FlowRuns :
    pending_calls[f] # NoCall =>
      /\ pending_calls[f].result \in {"True", "False"}
      /\ pending_calls[f].result = "True" <=>
           (pending_calls[f].answer \in FlowRunStates
              /\ is_pending(pending_calls[f].answer))

\* _submit_run for f has come back from _propose_pending_state without an
\* accepted Pending state
PendingRefused(f) ==
  sub[f] = "propose" /\ sub'[f] \notin {"propose", "start"}

\* C35: when the Pending proposal for a flow run is not accepted,
\* _submit_run starts no child process for it, enters nothing in
\* flow_run_process_map, releases the limiter slot of the flow run and
\* removes its id from submitting_flow_run_ids before it returns.
\* (Violated: when the proposal ends with the Pause signal _submit_run is
\* left by the signal, with the slot held and the id in the set.)
C35_RefusedPendingReleases ==
  [][\A f \in FlowRuns :
       PendingRefused(f) =>
         /\ mon' = mon
         /\ flow_run_process_map' = flow_run_process_map
         /\ f \notin borrowers'
         /\ f \notin submitting_flow_run_ids'
         /\ tg_crashed' = tg_crashed ]_vars

\* _submit_run for f has logged the rejection of _check_flow_run and
\* returned
CheckRejected(f) ==
  sub[f] = "check" /\ sub'[f] = "none" /\ ~ tg_crashed'

\* C36: when the storage-block precheck rejects a flow run (ValueError for
\* a deployment with a storage document, ObjectNotFound for a deployment
\* that is not found), _submit_run proposes no state for it (it never gets
\* to the Pending proposal, and no monitor task that could propose Crashed
\* is started), spawns no child process, leaves flow_run_process_map as it
\* is and removes the id from submitting_flow_run_ids.
C36_RejectedCheckOnlyRemovesId ==
  [][\A f \in FlowRuns :
       /\ CheckRejected(f) =>
            /\ mon' = mon
            /\ ready' = ready
            /\ flow_run_process_map' = flow_run_process_map
            /\ f \in submitting_flow_run_ids
            /\ submitting_flow_run_ids' = submitting_flow_run_ids \ {f}
       /\ sub'[f] = "propose" => sub[f] \in {"check", "propose"}
       /\ (sub[f] = "check" /\ sub'[f] = "propose") =>
            UNCHANGED <<submitting_flow_run_ids, mon, flow_run_process_map>>
    ]_vars

\* the precheck has rejected flow run 1: its submission is over, with its
\* slot still held (C2), no process, no entry and the id removed
C36_Witness ==
  /\ mode = "start"
  /\ ~ tg_crashed
  /\ limit # NoLimit
  /\ 1 \in borrowers
  /\ SubmissionEnded(1)
  /\ 1 \notin submitting_flow_run_ids
  /\ flow_run_process_map[1] = "none"

\* C37: while a flow-run id is in submitting_flow_run_ids no submit tick
\* spawns a second _submit_run for it or acquires a second limiter slot for
\* it, even when the server returns the flow run again as a candidate: a
\* tick spawns nothing for an id that is in the set, leaves the _submit_run
\* of every such id where it stands, acquires slots only for the flow runs
\* it spawns, and a tick all of whose candidates are in the set does not
\* touch the limiter.
C37_NoSecondSubmitWhileSubmitting ==
  [][ tick' # NoTick =>
        /\ tick'.spawned \cap submitting_flow_run_ids = {}
        /\ \A f \in submitting_flow_run_ids :
             sub'[f] = sub[f] /\ f \in submitting_flow_run_ids'
        /\ (borrowers' \ borrowers) \subseteq tick'.spawned
        /\ tick'.cands \subseteq submitting_flow_run_ids =>
             /\ borrowers' = borrowers
             /\ limiter_error' = limiter_error
             /\ sub' = sub ]_vars

\* flow run 1 was returned again while its _submit_run was waiting for the
\* Pending proposal; the tick has skipped it and submitted flow run 2
C37_Witness ==
  /\ limit = 2
  /\ tick = [cands |-> {1, 2}, already |-> {1}, spawned |-> {2}]
  /\ sub[1] = "propose"
  /\ sub[2] = "check"
  /\ borrowers = {1, 2}

\* C38: for a task with a task_run_name, set_task_run_name is called once
\* per task run, in the run context of the first attempt, and not again on
\* the later attempts of the engine; for a task without one it is never
\* called.  Before the first attempt nothing has been called; from the
\* first attempt on the number of calls is one with a task_run_name and
\* zero without, and the call is made by the step that enters the first
\* run context.
C38_NameSetOnceOnFirstAttempt ==
  /\ [](name_calls = IF task.task_run_name /\ fn_calls >= 1 THEN 1 ELSE 0)
  /\ [](task_name_set <=> name_calls = 1)
  /\ [][name_calls' # name_calls =>
          /\ task.task_run_name
          /\ pc = "loop"
          /\ fn_calls = 0
          /\ fn_calls' = 1
          /\ name_calls' = 1]_vars

\* a task with a task_run_name has been retried twice: three attempts, one
\* call of set_task_run_name
C38_Witness ==
  /\ task.task_run_name
  /\ retries = 2
  /\ fn_calls = 3
  /\ name_calls = 1
  /\ task_name_set

\* C39: the environment passed to the child process of a flow run maps
\* PREFECT__FLOW_RUN_ID to the hex id of that flow run, for every parent
\* environment and settings, a parent environment that already defines
\* PREFECT__FLOW_RUN_ID with another value included, and every other
\* variable of the parent environment is passed through.  (Violated:
\* os.environ is applied last and replaces the injected id.)
C39_FlowRunIdInjected ==
  env_call.called =>
    /\ env_call.env["PREFECT__FLOW_RUN_ID"] = Hex(env_call.flow_run)
    /\ \A k \in EnvNames \ {"PREFECT__FLOW_RUN_ID"} :
         env_call.environ[k] # Unset => env_call.env[k] = env_call.environ[k]

\* the submission of f has ended: no _submit_run of f is on its way, and
\* execute_flow_run is past the start of the process
SubmissionOver(f) ==
  /\ sub[f] = "none"
  /\ exec_pc \notin {"read", "start"}

\* C40: every flow-run id added to submitting_flow_run_ids by the submit
\* loop or by execute_flow_run is removed from it once its submission has
\* ended (rejected by the precheck, refused at the Pending proposal, failed
\* to start, or process started), unless a failure has ended the task
\* group: no id stays in the set forever.  (Violated: execute_flow_run adds
\* the id and nothing removes it.)
C40_SubmittingIdEventuallyRemoved ==
  \A f \in FlowRuns :
    (f \in submitting_flow_run_ids /\ SubmissionOver(f))
      ~> (f \notin submitting_flow_run_ids \/ tg_crashed)

====
